---- MODULE Spec2Model ----
(***************************************************************************)
(* Orchestration core of the lead pipeline: the lead store, the voice      *)
(* scheduler and call worker, the data-entry scheduler and entry worker,   *)
(* and the manual status-override endpoint.                                *)
(*                                                                         *)
(* Scheduler processes: the application runs one VoiceAgent and one        *)
(* DataEntryAgent in continuous mode (main.py start_agents); each agent    *)
(* module also has its own main(), so a second instance of a stage can run *)
(* against the same store (voice_agent.py main, data_entry_agent.py main). *)
(* The store is shared; every repository call is one transaction.          *)
(***************************************************************************)
EXTENDS Integers, Sequences, FiniteSets, TLC

\* ---------------------------------------------------------------- bounds
NumLeads == 1
MaxStoreFaults == 1
MaxRows == 2

\* ------------------------------------------------------- program constants
MAX_CONCURRENT_CALLS == 5
CALL_RETRY_ATTEMPTS == 3
CALL_TIMEOUT_SECONDS == 300
MAX_CONCURRENT_DATA_ENTRIES == 3
ENTRY_RETRY_ATTEMPTS == 3
CallAttemptLimit == 3
EntryAttemptLimit == 3
POLL_INTERVAL == 5
VoiceBatchSize == 5
EntryBatchSize == 3

NULL == "NULL"

LeadIds == 1..NumLeads

LeadStatus ==
    {"PENDING", "CALLING", "CONFIRMED", "NOT_INTERESTED", "CALL_FAILED",
     "ENTRY_IN_PROGRESS", "ENTERED", "ENTRY_FAILED"}

\* The two scheduler processes of each stage: the one the application
\* driver starts and the one started from the agent module's own main().
VoiceAgents == {"voice_app", "voice_cli"}
EntryAgents == {"entry_app", "entry_cli"}

RunOnce_Never(a) == FALSE

\* run_once as each entry point passes it: start_agents passes False; the
\* module main() passes the --run-once flag, taken here as set.
RunOnce(a) == a \in {"voice_cli", "entry_cli"}

\* Provider call states the status poll can report.
TerminalStates == {"completed", "failed", "no-answer", "busy", "canceled"}
PollStates == {"in-progress", "completed", "busy"}

\* Seconds one get_call_status request takes (requests.get has no timeout).
PollLatencies == {145, 445}

\* Attempt counters a lead can carry when the processes start: a fresh
\* import, or a lead put back to PENDING after two or three earlier rounds.
InitAttempts == {0, 2, 3}

TimeoutError == "Call timed out after 300 seconds"
InitiateError == "Failed to initiate call"
ProviderErrorText == "provider error"
LoginError == "Failed to log in to LeadHoop portal"
GenericSubmitError == "Form submission failed without a specific error message"
ExceptionText == "exception"

VARIABLES
    leads,          \* the leads table: lead id -> row
    status_order,   \* lead ids by status_updated_at, oldest first
    call_logs,      \* the call_logs table: the rows of each lead, oldest first
    entry_logs,     \* the entry_logs table: the rows of each lead, oldest first
    voice,          \* VoiceAgent.run of each voice process
    call_task,      \* VoiceAgent.process_lead tasks of each voice process
    active_calls,   \* VoiceAgent.active_calls of each voice process
    entry,          \* DataEntryAgent.run of each entry process
    entry_task,     \* DataEntryAgent.process_lead tasks
    active_entries, \* DataEntryAgent.active_entries
    faults,         \* store operations that have raised so far
    status_update,  \* the last update_lead_status call made from outside
                    \* the workers, and what it returned
    manager,        \* ApplicationManager.running, whether a signal was
                    \* handled, and whether the process has exited
    csv_import      \* the last call of import_csv_file or bulk_create_leads
                    \* and what it returned

vars == <<leads, status_order, call_logs, entry_logs, voice, call_task,
          active_calls, entry, entry_task, active_entries, faults,
          status_update, manager, csv_import>>

\* ---------------------------------------------------------------- helpers
Min(a, b) == IF a < b THEN a ELSE b

Take(s, n) == SubSeq(s, 1, Min(n, Len(s)))

Range(s) == {s[i] : i \in 1..Len(s)}

\* The ids of a leads table in creation order (created_at ascending).
created_order(ls) == [i \in 1..Cardinality(DOMAIN ls) |-> i]

FilterSeq(s, S) ==
    LET keep(x) == x \in S IN SelectSeq(s, keep)

\* status_updated_at = utcnow(): the lead becomes the most recently updated.
Touch(order, id) ==
    LET other(x) == x # id IN Append(SelectSeq(order, other), id)

\* ------------------------------------------------------------- the store
Lead(attempts) ==
    [status |-> "PENDING",
     call_attempts |-> attempts,
     entry_attempts |-> attempts,
     call_initiated_at |-> IF attempts = 0 THEN NULL
                           ELSE IF attempts < CallAttemptLimit THEN "recent"
                           ELSE "old",
     call_completed_at |-> IF attempts = 0 THEN NULL ELSE "set",
     entry_initiated_at |-> IF attempts = 0 THEN NULL ELSE "set",
     entry_completed_at |-> IF attempts = 0 THEN NULL ELSE "set",
     confirmed_fields |-> NULL,
     last_error |-> NULL]

update_lead_status_WritesOnRaise(ls, lead_id, status, additional_fields, ok) ==
    IF lead_id \notin DOMAIN ls
    THEN ls
    ELSE [ls EXCEPT ![lead_id] =
            [f \in DOMAIN ls[lead_id] |->
                IF f = "status" THEN status
                ELSE IF f \in DOMAIN additional_fields THEN additional_fields[f]
                ELSE ls[lead_id][f]]]

\* update_lead_status: one transaction that reads the row by id, sets the
\* status and the additional fields the row has, and commits.  ok = FALSE is
\* the store raising inside it: nothing is written and False is returned.
update_lead_status(ls, lead_id, status, additional_fields, ok) ==
    IF ~ok \/ lead_id \notin DOMAIN ls
    THEN ls
    ELSE [ls EXCEPT ![lead_id] =
            [f \in DOMAIN ls[lead_id] |->
                IF f = "status" THEN status
                ELSE IF f \in DOMAIN additional_fields THEN additional_fields[f]
                ELSE ls[lead_id][f]]]

\* The value update_lead_status returns: True after the commit, False when
\* no row has the id and when the store raised.
update_lead_status_returns(ls, lead_id, ok) == ok /\ lead_id \in DOMAIN ls

\* No CSV file imported yet.
NoImport ==
    [call |-> NULL, file |-> [kind |-> NULL, rows |-> 0], handed |-> <<>>,
     raised |-> FALSE, bulk |-> <<>>, result |-> <<>>]

\* The ApplicationManager after initialize().
Initialized == [running |-> TRUE, signalled |-> FALSE, exited |-> FALSE]

\* The tasks of an agent take steps while its process lives; the agents of
\* the application run in the process of the ApplicationManager.
Alive(a) == a \in {"voice_app", "entry_app"} => ~manager.exited

\* No call of update_lead_status from outside the workers yet.
NoStatusUpdate ==
    [lead_id |-> 0, status |-> NULL, fields |-> <<>>, raised |-> FALSE,
     returned |-> FALSE, status_code |-> 0]

update_order(order, ls, lead_id, ok) ==
    IF ~ok \/ lead_id \notin DOMAIN ls THEN order ELSE Touch(order, lead_id)

log_row_Overwrites(logs, lead_id, data, ok) ==
    IF ok THEN [logs EXCEPT ![lead_id] =
                    <<[status |-> data.status, error |-> data.error]>>]
    ELSE logs

\* log_call / log_entry: append one row; ok = FALSE is the store raising.
log_row(logs, lead_id, data, ok) ==
    IF ok THEN [logs EXCEPT ![lead_id] =
                    Append(@, [status |-> data.status, error |-> data.error])]
    ELSE logs

PendingEligible_NoLimit(ls) ==
    {l \in DOMAIN ls :
        /\ ls[l].status = "PENDING"
        /\ ls[l].call_initiated_at \in {NULL, "old"}}

\* get_pending_leads_for_calling(limit)
PendingEligible(ls) ==
    {l \in DOMAIN ls :
        /\ ls[l].status = "PENDING"
        /\ ls[l].call_initiated_at \in {NULL, "old"}
        /\ ls[l].call_attempts < CallAttemptLimit}

get_pending_leads_for_calling(ls, limit) ==
    Take(FilterSeq(created_order(ls), PendingEligible(ls)), limit)

ConfirmedEligible_AnyOpen(ls) ==
    {l \in DOMAIN ls :
        /\ ls[l].status \in {"CONFIRMED", "ENTRY_IN_PROGRESS"}
        /\ ls[l].entry_attempts < EntryAttemptLimit}

\* get_confirmed_leads_for_entry(limit)
ConfirmedEligible(ls) ==
    {l \in DOMAIN ls :
        /\ ls[l].status = "CONFIRMED"
        /\ ls[l].entry_attempts < EntryAttemptLimit}

get_confirmed_leads_for_entry_ByCreation(ls, order, limit) ==
    Take(FilterSeq(created_order(ls), ConfirmedEligible(ls)), limit)

get_confirmed_leads_for_entry(ls, order, limit) ==
    Take(FilterSeq(order, ConfirmedEligible(ls)), limit)

\* A store operation may raise while the fault budget lasts.
WriteOutcomes == IF faults < MaxStoreFaults THEN {TRUE, FALSE} ELSE {TRUE}

Failed(ok) == IF ok THEN 0 ELSE 1


\* Pairs of outcomes of the two store writes that end a worker.
WritePairs ==
    {p \in BOOLEAN \X BOOLEAN :
        faults + Failed(p[1]) + Failed(p[2]) <= MaxStoreFaults}

\* -------------------------------------------------------- the call stage
NoResponses == [verify_education |-> NULL, area_of_interest |-> NULL]

NoCallTask ==
    [pc |-> "none", call_attempts |-> 0, call_id |-> 0, elapsed |-> 0,
     initiated |-> FALSE, polled |-> FALSE, poll_failed |-> FALSE,
     responses |-> NoResponses,
     observed |-> NULL, late |-> FALSE, archive |-> NULL,
     make_calls |-> 0, updates |-> 0, logs |-> 0]

\* The topics whose "no" answer marks the lead as not interested.
InterestTopics == {"verify_education", "area_of_interest"}

\* transcript.responses of a completed call, as far as the worker reads it.
Responses ==
    {[verify_education |-> "yes", area_of_interest |-> "yes"],
     [verify_education |-> "no", area_of_interest |-> "yes"],
     [verify_education |-> "yes", area_of_interest |-> "no"]}

\* interested = True unless one of the topics was answered "no".
Interested(responses) ==
    ~ \E section \in InterestTopics : responses[section] = "no"

StatusError(s) ==
    CASE s = "failed" -> "Call failed with status: failed"
      [] s = "no-answer" -> "Call failed with status: no-answer"
      [] s = "busy" -> "Call failed with status: busy"
      [] s = "canceled" -> "Call failed with status: canceled"
      [] OTHER -> "Call failed with status"

\* A call id the provider hands out: one this process does not track yet.
NewCallId(a) ==
    CHOOSE n \in 1..(Cardinality(active_calls[a]) + 1) :
        \A c \in active_calls[a] : c.call_id # n

\* The two writes that end a call worker: the status update and the log row.
CallFinish_WritesConfirmed(l, status, fields, logdata, p) ==
    /\ leads' = update_lead_status(leads, l, status,
            [f \in DOMAIN fields \cup {"confirmed_fields"} |->
                IF f = "confirmed_fields" THEN "set" ELSE fields[f]], p[1])
    /\ status_order' = update_order(status_order, leads, l, p[1])
    /\ call_logs' = log_row(call_logs, l, logdata, p[2])
    /\ faults' = faults + Failed(p[1]) + Failed(p[2])

CallFinish(l, status, fields, logdata, p) ==
    /\ leads' = update_lead_status(leads, l, status, fields, p[1])
    /\ status_order' = update_order(status_order, leads, l, p[1])
    /\ call_logs' = log_row(call_logs, l, logdata, p[2])
    /\ faults' = faults + Failed(p[1]) + Failed(p[2])

CallDone_RetriesInPlace(t, p) ==
    [t EXCEPT !.pc = IF t.initiated THEN "done" ELSE "start",
              !.call_id = 0, !.elapsed = 0,
              !.updates = @ + (1 - Failed(p[1])),
              !.logs = @ + (1 - Failed(p[2]))]

CallDone(t, p) ==
    [t EXCEPT !.pc = "done", !.call_id = 0, !.elapsed = 0,
              !.updates = @ + (1 - Failed(p[1])),
              !.logs = @ + (1 - Failed(p[2]))]

\* The task-creating loop of VoiceAgent.run: one task per fetched lead; the
\* loop breaks when len(active_calls) has reached the cap.  No task runs
\* before the gather, so active_calls is the same at every turn of the loop.
LaunchedCalls(found, tracked) ==
    IF tracked >= MAX_CONCURRENT_CALLS THEN <<>> ELSE found

\* VoiceAgent.run, one cycle up to the gather: fetch the batch and create one
\* task per lead unless active_calls has reached the cap.
VoiceSelect(a) ==
    /\ Alive(a)
    /\ voice[a].pc = "select"
    /\ LET found == get_pending_leads_for_calling(leads, voice[a].batch_size)
           launched == Range(LaunchedCalls(found, Cardinality(active_calls[a])))
       IN /\ voice' = [voice EXCEPT ![a] =
                [pc |-> IF found # <<>> THEN "gather"
                        ELSE IF RunOnce(a) THEN "stopped" ELSE "select",
                 batch_size |-> voice[a].batch_size,
                 batch |-> found,
                 in_progress_seen |-> {l \in DOMAIN leads :
                     leads[l].status = "CALLING"},
                 at_limit_seen |-> {l \in DOMAIN leads :
                     /\ leads[l].status = "PENDING"
                     /\ leads[l].call_attempts >= CallAttemptLimit}]]
          /\ call_task' = [call_task EXCEPT ![a] =
                [l \in DOMAIN leads |->
                    IF l \in launched
                    THEN [NoCallTask EXCEPT !.pc = "start",
                             !.call_attempts = leads[l].call_attempts]
                    ELSE NoCallTask]]
    /\ UNCHANGED <<status_update, manager, csv_import, leads, status_order, call_logs, entry_logs, active_calls,
                   entry, entry_task, active_entries, faults>>

\* A gather that returns when the first task has returned and leaves the
\* other tasks of the cycle running.
\* VoiceAgent.run when the store raises in get_pending_leads_for_calling:
\* get_db_session rolls back and raises again, the fetch has no handler, and
\* the handler of run, which encloses the while loop, logs the error; run
\* returns, whatever run_once is.
VoiceSelectRaises(a) ==
    /\ Alive(a)
    /\ voice[a].pc = "select"
    /\ faults < MaxStoreFaults
    /\ voice' = [voice EXCEPT ![a].pc = "stopped"]
    /\ faults' = faults + 1
    /\ UNCHANGED <<status_update, manager, csv_import, leads, status_order, call_logs, entry_logs,
                   call_task, active_calls, entry, entry_task,
                   active_entries>>

VoiceGather_FirstCompleted(a) ==
    /\ Alive(a)
    /\ voice[a].pc = "gather"
    /\ \/ \E l \in DOMAIN leads : call_task[a][l].pc = "done"
       \/ \A l \in DOMAIN leads : call_task[a][l].pc = "none"
    /\ voice' = [voice EXCEPT ![a].pc =
                    IF RunOnce(a) THEN "stopped" ELSE "select"]
    /\ call_task' = [call_task EXCEPT ![a] =
                        [l \in DOMAIN leads |->
                            IF call_task[a][l].pc = "done" THEN NoCallTask
                            ELSE call_task[a][l]]]
    /\ UNCHANGED <<status_update, manager, csv_import, leads, status_order, call_logs, entry_logs, active_calls,
                   entry, entry_task, active_entries, faults>>

\* VoiceAgent.run after the gather: every task of the cycle has returned.
VoiceGather(a) ==
    /\ Alive(a)
    /\ voice[a].pc = "gather"
    /\ \A l \in DOMAIN leads : call_task[a][l].pc \in {"none", "done"}
    /\ voice' = [voice EXCEPT ![a].pc =
                    IF RunOnce(a) THEN "stopped" ELSE "select"]
    /\ call_task' = [call_task EXCEPT ![a] =
                        [l \in DOMAIN leads |-> NoCallTask]]
    /\ UNCHANGED <<status_update, manager, csv_import, leads, status_order, call_logs, entry_logs, active_calls,
                   entry, entry_task, active_entries, faults>>

\* process_lead up to the result of make_call: the claim write, built from
\* the lead object the task was given, then the initiate request.
VoiceClaim(a, l) ==
    /\ Alive(a)
    /\ call_task[a][l].pc = "start"
    /\ \E ok \in WriteOutcomes, call_ok \in BOOLEAN :
        LET t == call_task[a][l]
            id == NewCallId(a)
        IN /\ leads' = update_lead_status(leads, l, "CALLING",
                    [call_initiated_at |-> "recent",
                     call_attempts |-> t.call_attempts + 1], ok)
           /\ status_order' = update_order(status_order, leads, l, ok)
           /\ faults' = faults + Failed(ok)
           /\ call_task' = [call_task EXCEPT ![a][l] =
                    [t EXCEPT !.pc = IF call_ok THEN "monitor" ELSE "init_failed",
                              !.call_id = IF call_ok THEN id ELSE 0,
                              !.initiated = call_ok,
                              !.make_calls = @ + 1]]
           /\ active_calls' = [active_calls EXCEPT ![a] =
                    IF call_ok THEN @ \cup {[call_id |-> id, lead_id |-> l]}
                    ELSE @]
    /\ UNCHANGED <<status_update, manager, csv_import, call_logs, entry_logs, voice, entry, entry_task,
                   active_entries>>

\* make_call without success: the "error" of its result is the body of the
\* provider's error response, which may be empty, or the exception text.
MakeCallFailures ==
    {[success |-> FALSE, error |-> ""],
     [success |-> FALSE, error |-> ProviderErrorText],
     [success |-> FALSE, error |-> ExceptionText]}

\* call_response.get("error", "Failed to initiate call")
ResponseError(call_response) ==
    IF "error" \in DOMAIN call_response THEN call_response.error
    ELSE InitiateError

\* process_lead when make_call reported no success.
VoiceInitFailed(a, l) ==
    /\ Alive(a)
    /\ call_task[a][l].pc = "init_failed"
    /\ \E p \in WritePairs, call_response \in MakeCallFailures :
        /\ CallFinish(l, "CALL_FAILED",
                [call_completed_at |-> "set",
                 last_error |-> ResponseError(call_response)],
                [status |-> "failed", error |-> ResponseError(call_response)],
                p)
        /\ call_task' = [call_task EXCEPT ![a][l] = CallDone(@, p)]
    /\ UNCHANGED <<status_update, manager, csv_import, entry_logs, voice, active_calls, entry, entry_task,
                   active_entries>>

StopTracking(a, id) == {c \in active_calls[a] : c.call_id # id}

VoicePoll_ErrorIsTerminal(a, l) ==
    /\ Alive(a)
    /\ call_task[a][l].pc = "monitor"
    /\ call_task[a][l].elapsed < CALL_TIMEOUT_SECONDS
    /\ \E lat \in PollLatencies, resp \in PollStates \cup {"error"} :
        LET t == call_task[a][l]
            at == t.elapsed + lat
        IN IF resp \notin TerminalStates \cup {"error"}
           THEN /\ call_task' = [call_task EXCEPT ![a][l] =
                        [t EXCEPT !.polled = TRUE,
                                  !.poll_failed = (resp = "error"),
                                  !.elapsed = Min(at + POLL_INTERVAL,
                                                  CALL_TIMEOUT_SECONDS)]]
                /\ UNCHANGED <<leads, status_order, call_logs, faults,
                               active_calls>>
           ELSE IF resp = "completed"
           THEN /\ \E r \in Responses :
                    call_task' = [call_task EXCEPT ![a][l] =
                        [t EXCEPT !.pc = "recording", !.polled = TRUE,
                                  !.poll_failed = FALSE,
                                  !.observed = resp,
                                  !.late = (at >= CALL_TIMEOUT_SECONDS),
                                  !.responses = r]]
                /\ UNCHANGED <<leads, status_order, call_logs, faults,
                               active_calls>>
           ELSE \E p \in WritePairs :
                /\ CallFinish(l, "CALL_FAILED",
                        [call_completed_at |-> "set",
                         last_error |-> StatusError(resp)],
                        [status |-> resp, error |-> StatusError(resp)], p)
                /\ call_task' = [call_task EXCEPT ![a][l] =
                        CallDone([t EXCEPT !.polled = TRUE, !.observed = resp,
                                           !.poll_failed = (resp = "error"),
                                           !.late = (at >= CALL_TIMEOUT_SECONDS)],
                                 p)]
                /\ active_calls' = [active_calls EXCEPT ![a] =
                        StopTracking(a, t.call_id)]
    /\ UNCHANGED <<status_update, manager, csv_import, entry_logs, voice, entry, entry_task, active_entries>>


\* _monitor_call, one turn of the loop: the deadline test, one status
\* request, then either the sleep or _process_call_results up to its first
\* await (completed) or to its end (any other terminal state).
\* A status request that fails (success False: a provider error or an
\* exception of requests.get) is logged, and the loop sleeps and goes on.
VoicePoll(a, l) ==
    /\ Alive(a)
    /\ call_task[a][l].pc = "monitor"
    /\ call_task[a][l].elapsed < CALL_TIMEOUT_SECONDS
    /\ \E lat \in PollLatencies, resp \in PollStates \cup {"error"} :
        LET t == call_task[a][l]
            at == t.elapsed + lat
        IN IF resp \notin TerminalStates
           THEN /\ call_task' = [call_task EXCEPT ![a][l] =
                        [t EXCEPT !.polled = TRUE,
                                  !.poll_failed = (resp = "error"),
                                  !.elapsed = Min(at + POLL_INTERVAL,
                                                  CALL_TIMEOUT_SECONDS)]]
                /\ UNCHANGED <<leads, status_order, call_logs, faults,
                               active_calls>>
           ELSE IF resp = "completed"
           THEN /\ \E r \in Responses :
                    call_task' = [call_task EXCEPT ![a][l] =
                        [t EXCEPT !.pc = "recording", !.polled = TRUE,
                                  !.poll_failed = FALSE,
                                  !.observed = resp,
                                  !.late = (at >= CALL_TIMEOUT_SECONDS),
                                  !.responses = r]]
                /\ UNCHANGED <<leads, status_order, call_logs, faults,
                               active_calls>>
           ELSE \E p \in WritePairs :
                /\ CallFinish(l, "CALL_FAILED",
                        [call_completed_at |-> "set",
                         last_error |-> StatusError(resp)],
                        [status |-> resp, error |-> StatusError(resp)], p)
                /\ call_task' = [call_task EXCEPT ![a][l] =
                        CallDone([t EXCEPT !.polled = TRUE, !.observed = resp,
                                           !.poll_failed = FALSE,
                                           !.late = (at >= CALL_TIMEOUT_SECONDS)],
                                 p)]
                /\ active_calls' = [active_calls EXCEPT ![a] =
                        StopTracking(a, t.call_id)]
    /\ UNCHANGED <<status_update, manager, csv_import, entry_logs, voice, entry, entry_task, active_entries>>

\* _monitor_call after the loop: the deadline has passed.
VoiceTimeout(a, l) ==
    /\ Alive(a)
    /\ call_task[a][l].pc = "monitor"
    /\ call_task[a][l].elapsed >= CALL_TIMEOUT_SECONDS
    /\ \E p \in WritePairs :
        /\ CallFinish(l, "CALL_FAILED",
                [call_completed_at |-> "set", last_error |-> TimeoutError],
                [status |-> "timeout", error |-> TimeoutError], p)
        /\ call_task' = [call_task EXCEPT ![a][l] = CallDone(@, p)]
    /\ active_calls' = [active_calls EXCEPT ![a] =
            StopTracking(a, call_task[a][l].call_id)]
    /\ UNCHANGED <<status_update, manager, csv_import, entry_logs, voice, entry, entry_task, active_entries>>

\* What fetching and archiving the recording can come to: the download
\* reports no success, the recording is uploaded, the upload reports no
\* success, the temporary file cannot be removed after the upload, the lead
\* lookup between download and upload raises, or the duration parsing after
\* the archival raises.
ArchiveOutcomes ==
    {"none", "uploaded", "upload_failed", "remove_failed", "lookup_failed",
     "raised"}

\* The outcomes in which an exception leaves _process_call_results.
ArchiveRaises(archive) == archive \in {"lookup_failed", "raised"}

\* get_lead_by_id is a store operation: it raises only while the fault
\* budget lasts.
LookupFaults(archive) == IF archive = "lookup_failed" THEN 1 ELSE 0

\* The archival step without the handler of process_lead: the exception
\* leaves the task, the gather re-raises it and the handler of run() ends
\* the scheduler loop.
VoiceArchive_Propagates(a, l) ==
    /\ Alive(a)
    /\ call_task[a][l].pc = "recording"
    /\ call_task' = [call_task EXCEPT ![a][l].pc = "done"]
    /\ voice' = [voice EXCEPT ![a].pc = "stopped"]
    /\ UNCHANGED <<status_update, manager, csv_import, leads, status_order, call_logs, entry_logs, active_calls,
                   entry, entry_task, active_entries, faults>>

\* _process_call_results for a completed call from the recording download
\* on; an exception ends in the handler of process_lead.
VoiceArchive(a, l) ==
    /\ Alive(a)
    /\ call_task[a][l].pc = "recording"
    /\ \E archive \in ArchiveOutcomes, p \in BOOLEAN \X BOOLEAN :
        LET t == call_task[a][l] IN
        /\ faults + LookupFaults(archive) + Failed(p[1]) + Failed(p[2])
                <= MaxStoreFaults
        /\ call_task' = [call_task EXCEPT ![a][l] =
                CallDone([t EXCEPT !.archive = archive], p)]
        /\ IF ArchiveRaises(archive)
           THEN /\ leads' = update_lead_status(leads, l, "CALL_FAILED",
                        [call_completed_at |-> "set",
                         last_error |-> ExceptionText], p[1])
                /\ status_order' = update_order(status_order, leads, l, p[1])
                /\ call_logs' = log_row(call_logs, l,
                        [status |-> "error", error |-> ExceptionText], p[2])
                /\ faults' = faults + LookupFaults(archive)
                                + Failed(p[1]) + Failed(p[2])
                /\ UNCHANGED active_calls
           ELSE /\ IF Interested(t.responses)
                   THEN CallFinish(l, "CONFIRMED",
                            [confirmed_fields |-> "set",
                             call_completed_at |-> "set"],
                            [status |-> "completed", error |-> NULL], p)
                   ELSE CallFinish(l, "NOT_INTERESTED",
                            [call_completed_at |-> "set"],
                            [status |-> "completed", error |-> NULL], p)
                /\ active_calls' = [active_calls EXCEPT ![a] =
                        StopTracking(a, t.call_id)]
    /\ UNCHANGED <<status_update, manager, csv_import, entry_logs, voice, entry, entry_task, active_entries>>


\* ------------------------------------------------------- the entry stage
\* The page the portal shows after the form was submitted: its URL, the
\* keywords its content holds, whether a success marker element is present
\* and the text of the first error marker element, if any.
Urls == {"/leads/thank-you", "/leads/success", "/leads/new"}
Contents == {{}, {"thank you"}, {"error"}}
MarkerText == "Email is invalid"
Pages ==
    [url : Urls, content : Contents, success_marker : BOOLEAN,
     error_marker : {NULL, MarkerText}]

\* No result page: nothing was submitted, or the worker has left the page.
NoPage ==
    [url |-> NULL, content |-> {}, success_marker |-> FALSE,
     error_marker |-> NULL]

NoEntryTask ==
    [pc |-> "none", entry_attempts |-> 0, authenticated |-> FALSE,
     url |-> NULL, page |-> NoPage, raised |-> NULL,
     screenshot |-> NULL, submitted |-> FALSE, clicks |-> 0,
     updates |-> 0, logs |-> 0]

success_indicators == {"thank you", "success", "submitted", "received", "confirmation"}
error_indicators == {"error", "failed", "invalid", "problem", "incorrect"}

\* The indicator words that occur in a URL, as substrings.
UrlWords(url) ==
    CASE url = "/leads/success" -> {"success"}
      [] url = "/leads/thank-you" -> {}
      [] OTHER -> {}

\* The heuristic with its last two layers in the other order: the error
\* words are looked for before the success marker elements.
verify_submission_success_ErrorsFirst(page) ==
    IF UrlWords(page.url) \cap success_indicators # {} THEN TRUE
    ELSE IF page.content \cap success_indicators # {} THEN TRUE
    ELSE IF page.content \cap error_indicators # {} THEN FALSE
    ELSE TRUE

\* _verify_submission_success: URL, then content, then marker elements,
\* then error words, then success by default.
verify_submission_success(page) ==
    IF UrlWords(page.url) \cap success_indicators # {} THEN TRUE
    ELSE IF page.content \cap success_indicators # {} THEN TRUE
    ELSE IF page.success_marker THEN TRUE
    ELSE IF page.content \cap error_indicators # {} THEN FALSE
    ELSE TRUE

\* _extract_error_message
extract_error_message(page) ==
    IF page.error_marker # NULL THEN page.error_marker ELSE GenericSubmitError

\* Where submit_lead may raise: nowhere, while the form is opened and filled,
\* at the screenshot taken before the click, or after the click while the
\* result page is awaited and read.
SubmitRaises == {"none", "fill", "screenshot", "verify"}

ScreenshotPath == "lead.png"
ErrorScreenshotPath == "error_lead.png"

\* The click on the submit button is reached only when nothing before it
\* raised.
Clicked(raised) == raised \in {"none", "verify"}

\* submit_lead: an exception anywhere before the verdict gives a failure
\* carrying the exception text, with a screenshot of the error state if
\* that one can be taken (error_shot).
submit_lead(raised, error_shot, page) ==
    IF raised # "none"
    THEN [success |-> FALSE, error |-> ExceptionText,
          screenshot |-> IF error_shot THEN ErrorScreenshotPath ELSE NULL]
    ELSE IF verify_submission_success(page)
    THEN [success |-> TRUE, error |-> NULL, screenshot |-> ScreenshotPath]
    ELSE [success |-> FALSE, error |-> extract_error_message(page),
          screenshot |-> ScreenshotPath]

EntryFinish(l, status, fields, logdata, p) ==
    /\ leads' = update_lead_status(leads, l, status, fields, p[1])
    /\ status_order' = update_order(status_order, leads, l, p[1])
    /\ entry_logs' = log_row(entry_logs, l, logdata, p[2])
    /\ faults' = faults + Failed(p[1]) + Failed(p[2])

EntryWrote(t, pc, p) ==
    [t EXCEPT !.pc = pc,
              !.updates = @ + (1 - Failed(p[1])),
              !.logs = @ + (1 - Failed(p[2]))]

LaunchedEntries_NoCap(found, active) == found

\* The task-creating loop of DataEntryAgent.run: active_entries is raised
\* with every task created, and the loop breaks when it has reached the cap.
LaunchedEntries(found, active) ==
    IF active >= MAX_CONCURRENT_DATA_ENTRIES THEN <<>>
    ELSE Take(found, MAX_CONCURRENT_DATA_ENTRIES - active)

\* DataEntryAgent.run, one cycle up to the gather.
EntrySelect(a) ==
    /\ Alive(a)
    /\ entry[a].pc = "select"
    /\ LET found == get_confirmed_leads_for_entry(leads, status_order,
                                                  entry[a].batch_size)
           launched == Range(LaunchedEntries(found, active_entries[a]))
       IN /\ entry' = [entry EXCEPT ![a] =
                [pc |-> IF found # <<>> THEN "gather"
                        ELSE IF RunOnce(a) THEN "stopped" ELSE "select",
                 batch_size |-> entry[a].batch_size,
                 batch |-> found,
                 in_progress_seen |-> {l \in DOMAIN leads :
                     leads[l].status = "ENTRY_IN_PROGRESS"},
                 at_limit_seen |-> {l \in DOMAIN leads :
                     /\ leads[l].status = "CONFIRMED"
                     /\ leads[l].entry_attempts >= EntryAttemptLimit}]]
          /\ entry_task' = [entry_task EXCEPT ![a] =
                [l \in DOMAIN leads |->
                    IF l \in launched
                    THEN [NoEntryTask EXCEPT !.pc = "start",
                             !.entry_attempts = leads[l].entry_attempts]
                    ELSE NoEntryTask]]
          /\ active_entries' = [active_entries EXCEPT ![a] =
                @ + Cardinality(launched)]
    /\ UNCHANGED <<status_update, manager, csv_import, leads, status_order, call_logs, entry_logs, voice,
                   call_task, active_calls, faults>>

\* DataEntryAgent.run when the store raises in
\* get_confirmed_leads_for_entry: as in VoiceAgent.run, the handler that
\* encloses the while loop logs the error and run returns.
EntrySelectRaises(a) ==
    /\ Alive(a)
    /\ entry[a].pc = "select"
    /\ faults < MaxStoreFaults
    /\ entry' = [entry EXCEPT ![a].pc = "stopped"]
    /\ faults' = faults + 1
    /\ UNCHANGED <<status_update, manager, csv_import, leads, status_order, call_logs, entry_logs,
                   voice, call_task, active_calls, entry_task,
                   active_entries>>

\* DataEntryAgent.run after the gather.
EntryGather(a) ==
    /\ Alive(a)
    /\ entry[a].pc = "gather"
    /\ \A l \in DOMAIN leads : entry_task[a][l].pc \in {"none", "done"}
    /\ entry' = [entry EXCEPT ![a].pc =
                    IF RunOnce(a) THEN "stopped" ELSE "select"]
    /\ active_entries' = [active_entries EXCEPT ![a] =
            IF \E l \in DOMAIN leads : entry_task[a][l].pc = "done"
            THEN 0 ELSE @]
    /\ entry_task' = [entry_task EXCEPT ![a] =
                        [l \in DOMAIN leads |-> NoEntryTask]]
    /\ UNCHANGED <<status_update, manager, csv_import, leads, status_order, call_logs, entry_logs, voice,
                   call_task, active_calls, faults>>

\* process_lead: the claim write, built from the lead object of the task.
EntryClaim(a, l) ==
    /\ Alive(a)
    /\ entry_task[a][l].pc = "start"
    /\ \E ok \in WriteOutcomes :
        LET t == entry_task[a][l] IN
        /\ leads' = update_lead_status(leads, l, "ENTRY_IN_PROGRESS",
                [entry_initiated_at |-> "set",
                 entry_attempts |-> t.entry_attempts + 1], ok)
        /\ status_order' = update_order(status_order, leads, l, ok)
        /\ faults' = faults + Failed(ok)
        /\ entry_task' = [entry_task EXCEPT ![a][l] =
                [t EXCEPT !.pc = "session"]]
    /\ UNCHANGED <<status_update, manager, csv_import, call_logs, entry_logs, voice, call_task, active_calls,
                   entry, active_entries>>

\* What login meets at the portal: whether the credentials are configured,
\* whether a request of its own raises (navigation, fill, click), whether
\* the URL after the navigation contains "login", and whether the URL after
\* the login form was sent still does.
LoginVisits ==
    [credentials : BOOLEAN, raised : BOOLEAN, login_url : BOOLEAN,
     still_login_url : BOOLEAN]

\* A session that is authenticated already: the portal URL does not lead to
\* the login page.
AlreadyAuthenticated(visit) ==
    visit.credentials /\ ~visit.raised /\ ~visit.login_url

\* `"sign in" in await page.title().lower()`: await binds less tightly than
\* the attribute reference, so lower() is looked up on the coroutine that
\* page.title() returns, and AttributeError is raised before anything is
\* awaited.  The test has no value ("yes" / "no"); it raises.
SignInInTitle == "AttributeError"

\* LeadHoopClient.login: every exception ends in its handler, which
\* returns False.  The conjunction and the disjunction evaluate the title
\* test only when their left operand does not decide.
login(visit) ==
    LET already ==
            IF visit.login_url THEN "no"
            ELSE IF SignInInTitle = "no" THEN "yes"
            ELSE IF SignInInTitle = "yes" THEN "no"
            ELSE "AttributeError"
        still ==
            IF visit.still_login_url THEN "yes" ELSE SignInInTitle
    IN IF ~visit.credentials THEN FALSE
       ELSE IF visit.raised THEN FALSE
       ELSE IF already = "AttributeError" THEN FALSE
       ELSE IF already = "yes" THEN TRUE
       ELSE IF still = "AttributeError" THEN FALSE
       ELSE still = "no"

\* process_lead: entering the client context (which may raise) and the
\* login.
EntrySession(a, l) ==
    /\ Alive(a)
    /\ entry_task[a][l].pc = "session"
    /\ \E enter_raised \in BOOLEAN, visit \in LoginVisits, p \in WritePairs :
        LET t == [entry_task[a][l] EXCEPT
                    !.authenticated = AlreadyAuthenticated(visit)]
        IN
        IF enter_raised
        THEN /\ EntryFinish(l, "ENTRY_FAILED",
                    [entry_completed_at |-> "set",
                     last_error |-> ExceptionText],
                    [status |-> "error", error |-> ExceptionText], p)
             /\ entry_task' = [entry_task EXCEPT ![a][l] =
                    EntryWrote(entry_task[a][l], "done", p)]
             /\ active_entries' = [active_entries EXCEPT ![a] = @ - 1]
        ELSE IF login(visit)
        THEN /\ p = <<TRUE, TRUE>>
             /\ entry_task' = [entry_task EXCEPT ![a][l] =
                    [t EXCEPT !.pc = "submit"]]
             /\ UNCHANGED <<leads, status_order, entry_logs, faults,
                            active_entries>>
        ELSE /\ EntryFinish(l, "ENTRY_FAILED",
                    [entry_completed_at |-> "set",
                     last_error |-> LoginError],
                    [status |-> "login_failed", error |-> LoginError], p)
             /\ entry_task' = [entry_task EXCEPT ![a][l] =
                    EntryWrote(t, "closing", p)]
             /\ UNCHANGED active_entries
    /\ UNCHANGED <<status_update, manager, csv_import, call_logs, voice, call_task, active_calls, entry>>

\* The clicks on the form's submit button in one run of submit_lead.
Clicks(raised) == IF Clicked(raised) THEN 1 ELSE 0

\* process_lead: submit_lead and the writes for its result.
EntrySubmit(a, l) ==
    /\ Alive(a)
    /\ entry_task[a][l].pc = "submit"
    /\ \E raised \in SubmitRaises, error_shot \in BOOLEAN, page \in Pages,
          p \in WritePairs :
        LET t == entry_task[a][l]
            result == submit_lead(raised, error_shot, page)
        IN /\ IF result.success
              THEN EntryFinish(l, "ENTERED",
                        [entry_completed_at |-> "set"],
                        [status |-> "completed", error |-> NULL], p)
              ELSE EntryFinish(l, "ENTRY_FAILED",
                        [entry_completed_at |-> "set",
                         last_error |-> result.error],
                        [status |-> "failed", error |-> result.error], p)
           /\ entry_task' = [entry_task EXCEPT ![a][l] =
                    EntryWrote([t EXCEPT !.url = IF raised # "none" THEN NULL
                                                  ELSE page.url,
                                         !.page = IF raised # "none" THEN NoPage
                                                   ELSE page,
                                         !.raised = raised,
                                         !.screenshot = result.screenshot,
                                         !.submitted = Clicked(raised),
                                         !.clicks = @ + Clicks(raised)],
                               "closing", p)]
    /\ UNCHANGED <<status_update, manager, csv_import, call_logs, voice, call_task, active_calls, entry,
                   active_entries>>

\* process_lead leaving the client context after its return statement:
\* __aexit__ closes the browser; if that raises, the handler of process_lead
\* runs; the finally clause gives the slot back.
EntryClose(a, l) ==
    /\ Alive(a)
    /\ entry_task[a][l].pc = "closing"
    /\ \E exit_raised \in BOOLEAN, p \in WritePairs :
        LET t == entry_task[a][l] IN
        IF exit_raised
        THEN /\ EntryFinish(l, "ENTRY_FAILED",
                    [entry_completed_at |-> "set",
                     last_error |-> ExceptionText],
                    [status |-> "error", error |-> ExceptionText], p)
             /\ entry_task' = [entry_task EXCEPT ![a][l] =
                    EntryWrote([t EXCEPT !.url = NULL, !.page = NoPage,
                                         !.raised = NULL,
                                         !.screenshot = NULL,
                                         !.authenticated = FALSE],
                               "done", p)]
        ELSE /\ p = <<TRUE, TRUE>>
             /\ entry_task' = [entry_task EXCEPT ![a][l] =
                    [t EXCEPT !.pc = "done", !.url = NULL, !.page = NoPage,
                              !.raised = NULL,
                              !.screenshot = NULL, !.authenticated = FALSE]]
             /\ UNCHANGED <<leads, status_order, entry_logs, faults>>
    /\ active_entries' = [active_entries EXCEPT ![a] = @ - 1]
    /\ UNCHANGED <<status_update, manager, csv_import, call_logs, voice, call_task, active_calls, entry>>

\* ------------------------------------------------------- the environment
\* An hour passes since the call of a lead was initiated.  Only the column
\* of a PENDING lead is ever compared with the clock.
CooldownElapses(l) ==
    /\ leads[l].status = "PENDING"
    /\ leads[l].call_initiated_at = "recent"
    /\ leads' = [leads EXCEPT ![l].call_initiated_at = "old"]
    /\ UNCHANGED <<status_update, manager, csv_import, status_order, call_logs, entry_logs, voice, call_task,
                   active_calls, entry, entry_task, active_entries, faults>>

\* PUT /leads/{lead_id}/status: the operator sets the status of a lead to any
\* member of LeadStatus through LeadRepository.update_lead_status, without
\* additional fields and whatever the current status is.  When the store
\* raises nothing is written and the endpoint answers 404.
ApiOverride(l, status) ==
    /\ \E ok \in WriteOutcomes :
        /\ leads' = update_lead_status(leads, l, status, <<>>, ok)
        /\ status_order' = update_order(status_order, leads, l, ok)
        /\ faults' = faults + Failed(ok)
        /\ status_update' =
                [lead_id |-> l, status |-> status, fields |-> <<>>,
                 raised |-> ~ok,
                 returned |-> update_lead_status_returns(leads, l, ok),
                 status_code |-> IF update_lead_status_returns(leads, l, ok)
                                 THEN 200 ELSE 404]
    /\ UNCHANGED <<manager, csv_import, call_logs, entry_logs, voice,
                   call_task, active_calls, entry, entry_task,
                   active_entries>>

\* LeadRepository.update_lead_status called on its own, with one of the
\* field dictionaries the workers pass.
AdditionalFields == {<<>>, [last_error |-> ExceptionText]}

RepositoryUpdate(l, status, additional_fields) ==
    /\ \E ok \in WriteOutcomes :
        /\ leads' = update_lead_status(leads, l, status, additional_fields, ok)
        /\ status_order' = update_order(status_order, leads, l, ok)
        /\ faults' = faults + Failed(ok)
        /\ status_update' =
                [lead_id |-> l, status |-> status, fields |-> additional_fields,
                 raised |-> ~ok,
                 returned |-> update_lead_status_returns(leads, l, ok),
                 status_code |-> 0]
    /\ UNCHANGED <<manager, csv_import, call_logs, entry_logs, voice,
                   call_task, active_calls, entry, entry_task,
                   active_entries>>

\* ------------------------------------------------------------ CSV import
MissingColumnsError == "CSV file missing required columns"
FileNotFoundError == "File not found"

\* A file handed to import_csv_file: not there, not parsed by read_csv,
\* parsed but without one of Firstname, Lastname, Email, Phone1, or
\* well-formed; rows is the number of data rows.
CsvFiles ==
    [kind : {"missing", "unreadable", "no_required", "well_formed"},
     rows : 0..MaxRows]

\* A row handed to bulk_create_leads: a dictionary whose keys are all
\* columns of Lead, or one with a key that Lead() rejects.
RowKinds == {"lead", "bad_key"}

RowLists == UNION {[1..n -> RowKinds] : n \in 0..MaxRows}

Count(rows, kind) == Cardinality({i \in 1..Len(rows) : rows[i] = kind})

\* The table with n leads added: Lead(status = PENDING) with the column
\* defaults, under the next ids.
Added(table, n) ==
    [l \in 1..(Cardinality(DOMAIN table) + n) |->
        IF l \in DOMAIN table THEN table[l] ELSE Lead(0)]

bulk_create_leads_KeepsCount(table, leads_data, commit_ok) ==
    IF commit_ok
    THEN [table |-> Added(table, Count(leads_data, "lead")),
          success |-> Count(leads_data, "lead"),
          failure |-> Count(leads_data, "bad_key")]
    ELSE [table |-> table,
          success |-> Count(leads_data, "lead"),
          failure |-> Count(leads_data, "bad_key")]

\* bulk_create_leads: every row that Lead() accepts is added to the session
\* and counted as a success, every other row as a failure; one commit for
\* all of them; when it raises, the session is rolled back and the
\* successes are counted as failures.
bulk_create_leads(table, leads_data, commit_ok) ==
    IF commit_ok
    THEN [table |-> Added(table, Count(leads_data, "lead")),
          success |-> Count(leads_data, "lead"),
          failure |-> Count(leads_data, "bad_key")]
    ELSE [table |-> table,
          success |-> 0,
          failure |-> Count(leads_data, "bad_key")
                        + Count(leads_data, "lead")]

\* import_csv_file: the rows of a well-formed file become dictionaries over
\* columns of Lead with status PENDING; after the bulk insert the file is
\* moved to the processed directory, and an error of that move, as any
\* other, is answered by the handler with (0, 1, [text]).
import_csv_file(table, file, commit_ok, rename_ok) ==
    LET leads_data == [i \in 1..file.rows |-> "lead"]
        created == bulk_create_leads(table, leads_data, commit_ok)
    IN  IF file.kind = "missing"
        THEN [table |-> table, handed |-> <<>>, bulk |-> <<>>,
              result |-> <<0, 1, <<FileNotFoundError>>>>]
        ELSE IF file.kind = "unreadable"
        THEN [table |-> table, handed |-> <<>>, bulk |-> <<>>,
              result |-> <<0, 1, <<ExceptionText>>>>]
        ELSE IF file.kind = "no_required"
        THEN [table |-> table, handed |-> <<>>, bulk |-> <<>>,
              result |-> <<0, file.rows, <<MissingColumnsError>>>>]
        ELSE [table |-> created.table, handed |-> leads_data,
              bulk |-> <<created.success, created.failure>>,
              result |-> IF rename_ok
                         THEN <<created.success, created.failure, <<>>>>
                         ELSE <<0, 1, <<ExceptionText>>>>]

\* The writes of a creation to the store: the new rows, last in both
\* orders, without log rows.
Created(table) ==
    /\ leads' = table
    /\ status_order' = status_order \o
            [i \in 1..(Cardinality(DOMAIN table) - Cardinality(DOMAIN leads))
                |-> Cardinality(DOMAIN leads) + i]
    /\ call_logs' = [l \in DOMAIN table |->
            IF l \in DOMAIN call_logs THEN call_logs[l] ELSE <<>>]
    /\ entry_logs' = [l \in DOMAIN table |->
            IF l \in DOMAIN entry_logs THEN entry_logs[l] ELSE <<>>]

\* CSVProcessor.import_csv_file run for a file, by the CSV thread or by the
\* background task of POST /csv/upload.
ImportCsv(file) ==
    /\ Cardinality(DOMAIN leads) + file.rows <= 2 * MaxRows
    /\ \E commit_ok \in IF file.kind = "well_formed"
                          THEN WriteOutcomes ELSE {TRUE},
          rename_ok \in IF file.kind = "well_formed"
                          THEN BOOLEAN ELSE {TRUE} :
        LET done == import_csv_file(leads, file, commit_ok, rename_ok)
        IN /\ Created(done.table)
           /\ faults' = faults + Failed(commit_ok)
           /\ csv_import' =
                [call |-> "import_csv_file", file |-> file,
                 handed |-> done.handed,
                 raised |-> ~commit_ok \/ ~rename_ok,
                 bulk |-> done.bulk, result |-> done.result]
    /\ UNCHANGED <<voice, call_task, active_calls, entry, entry_task,
                   active_entries, status_update, manager>>

\* LeadRepository.bulk_create_leads called on its own.
BulkCreate(leads_data) ==
    /\ Cardinality(DOMAIN leads) + Len(leads_data) <= 2 * MaxRows
    /\ \E commit_ok \in WriteOutcomes :
        LET created == bulk_create_leads(leads, leads_data, commit_ok)
        IN /\ Created(created.table)
           /\ faults' = faults + Failed(commit_ok)
           /\ csv_import' =
                [call |-> "bulk_create_leads",
                 file |-> [kind |-> NULL, rows |-> 0],
                 handed |-> leads_data, raised |-> ~commit_ok,
                 bulk |-> <<created.success, created.failure>>,
                 result |-> <<>>]
    /\ UNCHANGED <<voice, call_task, active_calls, entry, entry_task,
                   active_entries, status_update, manager>>

\* ------------------------------------------------------- specification
\* A scheduler that has not fetched anything yet; batch_size is the
\* argument run() was given.
NoSelection(batch_size) ==
    [pc |-> "select", batch_size |-> batch_size, batch |-> <<>>,
     in_progress_seen |-> {}, at_limit_seen |-> {}]

Init ==
    /\ leads \in [LeadIds -> {Lead(k) : k \in InitAttempts}]
    /\ status_order = created_order(leads)
    /\ call_logs = [l \in LeadIds |-> <<>>]
    /\ entry_logs = [l \in LeadIds |-> <<>>]
    /\ voice = [a \in VoiceAgents |-> NoSelection(VoiceBatchSize)]
    /\ call_task = [a \in VoiceAgents |-> [l \in LeadIds |-> NoCallTask]]
    /\ active_calls = [a \in VoiceAgents |-> {}]
    /\ entry = [a \in EntryAgents |-> NoSelection(EntryBatchSize)]
    /\ entry_task = [a \in EntryAgents |-> [l \in LeadIds |-> NoEntryTask]]
    /\ active_entries = [a \in EntryAgents |-> 0]
    /\ faults = 0
    /\ status_update = NoStatusUpdate
    /\ manager = Initialized
    /\ csv_import = NoImport

VoiceWorker(a, l) ==
    \/ VoiceClaim(a, l)
    \/ VoiceInitFailed(a, l)
    \/ VoicePoll(a, l)
    \/ VoiceTimeout(a, l)
    \/ VoiceArchive(a, l)

\* The steps an entry worker takes: as login returns False on every visit,
\* a worker never goes from the session to the submission.
EntryWorker(a, l) ==
    \/ EntryClaim(a, l)
    \/ EntrySession(a, l)
    \/ EntryClose(a, l)

\* The application as main.py starts it: one voice scheduler and one entry
\* scheduler, both continuous, over the shared store.
Next ==
    \/ VoiceSelect("voice_app")
    \/ VoiceSelectRaises("voice_app")
    \/ VoiceGather("voice_app")
    \/ \E l \in LeadIds : VoiceWorker("voice_app", l)
    \/ EntrySelect("entry_app")
    \/ EntrySelectRaises("entry_app")
    \/ EntryGather("entry_app")
    \/ \E l \in LeadIds : EntryWorker("entry_app", l)
    \/ \E l \in LeadIds : CooldownElapses(l)

Spec == Init /\ [][Next]_vars

\* The application left running: asyncio runs every task that is ready, and
\* every request to the store, the provider and the browser returns, with
\* whatever outcome; the clock advances.
VoiceProcess(a) ==
    \/ VoiceSelect(a)
    \/ VoiceSelectRaises(a)
    \/ VoiceGather(a)
    \/ \E l \in LeadIds : VoiceWorker(a, l)

EntryProcess(a) ==
    \/ EntrySelect(a)
    \/ EntrySelectRaises(a)
    \/ EntryGather(a)
    \/ \E l \in LeadIds : EntryWorker(a, l)

Clock == \E l \in LeadIds : CooldownElapses(l)

SpecLive ==
    /\ Init
    /\ [][Next]_vars
    /\ WF_vars(VoiceProcess("voice_app"))
    /\ WF_vars(EntryProcess("entry_app"))
    /\ WF_vars(Clock)

\* ApplicationManager.stop: the flag that the CSV thread reads; the agents
\* do not read it.
stop(m) == [m EXCEPT !.running = FALSE]

signal_handler_NoExit(m) == [stop(m) EXCEPT !.signalled = TRUE]

\* signal_handler of main(): stop(), then sys.exit(0).  SystemExit is not an
\* Exception, so no handler of the agents catches it; it leaves the event
\* loop, and asyncio.run cancels the tasks that are left.
signal_handler(m) == [stop(m) EXCEPT !.signalled = TRUE, !.exited = TRUE]

\* SIGINT or SIGTERM reaches the process of the application.
Signal ==
    /\ ~manager.exited
    /\ manager' = signal_handler(manager)
    /\ UNCHANGED <<leads, status_order, call_logs, entry_logs, voice,
                   call_task, active_calls, entry, entry_task,
                   active_entries, faults, status_update, csv_import>>

\* main() after start_agents has returned, which it does when both run()
\* coroutines have returned: the finally clause calls stop(), and the
\* process ends with asyncio.run.
MainReturns ==
    /\ ~manager.exited
    /\ voice["voice_app"].pc = "stopped"
    /\ entry["entry_app"].pc = "stopped"
    /\ manager' = [stop(manager) EXCEPT !.exited = TRUE]
    /\ UNCHANGED <<leads, status_order, call_logs, entry_logs, voice,
                   call_task, active_calls, entry, entry_task,
                   active_entries, faults, status_update, csv_import>>

\* The application with its driver: the tasks of the two agents take steps
\* while the process lives.
ShutdownNext ==
    \/ VoiceProcess("voice_app")
    \/ EntryProcess("entry_app")
    \/ Clock
    \/ Signal
    \/ MainReturns

\* run() returns at once when the credentials of its agent are not set.
InitShutdown ==
    \E api_key, leadhoop_credentials \in BOOLEAN :
        /\ leads \in [LeadIds -> {Lead(k) : k \in InitAttempts}]
        /\ status_order = created_order(leads)
        /\ call_logs = [l \in LeadIds |-> <<>>]
        /\ entry_logs = [l \in LeadIds |-> <<>>]
        /\ voice = [a \in VoiceAgents |->
                [NoSelection(VoiceBatchSize) EXCEPT !.pc =
                    IF a = "voice_app" /\ ~api_key THEN "stopped" ELSE @]]
        /\ call_task = [a \in VoiceAgents |-> [l \in LeadIds |-> NoCallTask]]
        /\ active_calls = [a \in VoiceAgents |-> {}]
        /\ entry = [a \in EntryAgents |->
                [NoSelection(EntryBatchSize) EXCEPT !.pc =
                    IF a = "entry_app" /\ ~leadhoop_credentials
                    THEN "stopped" ELSE @]]
        /\ entry_task = [a \in EntryAgents |-> [l \in LeadIds |-> NoEntryTask]]
        /\ active_entries = [a \in EntryAgents |-> 0]
        /\ faults = 0
        /\ status_update = NoStatusUpdate
        /\ manager = Initialized
        /\ csv_import = NoImport

SpecShutdown == InitShutdown /\ [][ShutdownNext]_vars

\* Two voice scheduler processes on the same store: the application's and
\* one started from voice_agent.py.
CallRaceNext ==
    \/ \E a \in VoiceAgents : VoiceSelect(a)
    \/ \E a \in VoiceAgents : VoiceGather(a)
    \/ \E a \in VoiceAgents, l \in LeadIds : VoiceWorker(a, l)
    \/ \E l \in LeadIds : CooldownElapses(l)

SpecCallRace == Init /\ [][CallRaceNext]_vars

\* The processes started over a given leads table, the schedulers with the
\* given batch sizes; raised is the number of store operations that have
\* raised before (MaxStoreFaults: the store raises no more).
Start(table, voice_batch, entry_batch, raised) ==
    /\ leads = table
    /\ status_order = created_order(table)
    /\ call_logs = [l \in DOMAIN table |-> <<>>]
    /\ entry_logs = [l \in DOMAIN table |-> <<>>]
    /\ voice = [a \in VoiceAgents |-> NoSelection(voice_batch)]
    /\ call_task = [a \in VoiceAgents |-> [l \in DOMAIN table |-> NoCallTask]]
    /\ active_calls = [a \in VoiceAgents |-> {}]
    /\ entry = [a \in EntryAgents |-> NoSelection(entry_batch)]
    /\ entry_task = [a \in EntryAgents |->
                        [l \in DOMAIN table |-> NoEntryTask]]
    /\ active_entries = [a \in EntryAgents |-> 0]
    /\ faults = raised
    /\ status_update = NoStatusUpdate
    /\ manager = Initialized
    /\ csv_import = NoImport

\* Freshly imported leads, never touched through the API, under the
\* application and one more voice scheduler started from voice_agent.py,
\* over a store that does not raise.
InitFresh ==
    Start([l \in LeadIds |-> Lead(0)], VoiceBatchSize, EntryBatchSize,
          MaxStoreFaults)

FreshNext ==
    \/ \E a \in VoiceAgents : VoiceSelect(a)
    \/ \E a \in VoiceAgents : VoiceGather(a)
    \/ \E a \in VoiceAgents, l \in LeadIds : VoiceWorker(a, l)
    \/ EntrySelect("entry_app")
    \/ EntryGather("entry_app")
    \/ \E l \in LeadIds : EntryWorker("entry_app", l)

SpecFresh == InitFresh /\ [][FreshNext]_vars

\* The application over a table of freshly imported leads, enough of them
\* for a cycle to launch sibling workers.
SiblingLeadIds == 1..(NumLeads + 1)

InitSiblings ==
    Start([l \in SiblingLeadIds |-> Lead(0)], VoiceBatchSize,
          EntryBatchSize, 0)

SiblingsNext ==
    \/ VoiceSelect("voice_app")
    \/ VoiceGather("voice_app")
    \/ \E l \in SiblingLeadIds : VoiceWorker("voice_app", l)
    \/ EntrySelect("entry_app")
    \/ EntryGather("entry_app")
    \/ \E l \in SiblingLeadIds : EntryWorker("entry_app", l)

SpecSiblings == InitSiblings /\ [][SiblingsNext]_vars
\* A voice scheduler started from voice_agent.py with the default
\* --batch-size or with one above the cap, over a table holding more fresh
\* leads than the cap.
CallLaunchLeadIds == 1..(MAX_CONCURRENT_CALLS + NumLeads)

InitCallLaunch ==
    \E batch_size \in {VoiceBatchSize, MAX_CONCURRENT_CALLS + NumLeads} :
        Start([l \in CallLaunchLeadIds |-> Lead(0)],
              batch_size, EntryBatchSize, 0)

\* One cycle of that scheduler up to the first await of every worker it
\* launched: the selection with the task-creating loop, then each task
\* running its claim and its initiate request.
CallLaunchNext ==
    \/ VoiceSelect("voice_cli")
    \/ \E l \in CallLaunchLeadIds : VoiceClaim("voice_cli", l)

SpecCallLaunch == InitCallLaunch /\ [][CallLaunchNext]_vars

\* A lead whose call was completed and confirmed and that no entry worker
\* has taken up yet.
ConfirmedLead ==
    [Lead(0) EXCEPT !.status = "CONFIRMED", !.call_attempts = 1,
                    !.call_initiated_at = "recent", !.call_completed_at = "set",
                    !.confirmed_fields = "set"]

\* The entry scheduler of the application started with an --entry-batch
\* above the cap, over a table holding more confirmed leads than the cap
\* and a store that raises no more.
EntryBatchLeadIds == 1..(MAX_CONCURRENT_DATA_ENTRIES + NumLeads)

InitEntryBatch ==
    Start([l \in EntryBatchLeadIds |-> ConfirmedLead], VoiceBatchSize,
          MAX_CONCURRENT_DATA_ENTRIES + NumLeads, MaxStoreFaults)

EntryBatchNext ==
    \/ EntrySelect("entry_app")
    \/ EntryGather("entry_app")
    \/ \E l \in EntryBatchLeadIds : EntryWorker("entry_app", l)

SpecEntryBatch == InitEntryBatch /\ [][EntryBatchNext]_vars

\* The submission unit on its own: submit_lead and the branch of
\* process_lead that records its result, run for a claimed lead on a page
\* on which login has returned True.  No visit makes login return True, so
\* the application does not reach this unit.
SubmittingLead(attempts) ==
    [ConfirmedLead EXCEPT !.status = "ENTRY_IN_PROGRESS",
                          !.entry_attempts = attempts + 1,
                          !.entry_initiated_at = "set"]

InitSubmission ==
    \E attempts \in 0..(EntryAttemptLimit - 1) :
        /\ leads = [l \in LeadIds |-> SubmittingLead(attempts)]
        /\ status_order = created_order(leads)
        /\ call_logs = [l \in LeadIds |-> <<>>]
        /\ entry_logs = [l \in LeadIds |-> <<>>]
        /\ voice = [a \in VoiceAgents |-> NoSelection(VoiceBatchSize)]
        /\ call_task = [a \in VoiceAgents |-> [l \in LeadIds |-> NoCallTask]]
        /\ active_calls = [a \in VoiceAgents |-> {}]
        /\ entry = [a \in EntryAgents |->
                IF a = "entry_app"
                THEN [NoSelection(EntryBatchSize) EXCEPT
                        !.pc = "gather", !.batch = created_order(leads)]
                ELSE NoSelection(EntryBatchSize)]
        /\ entry_task = [a \in EntryAgents |-> [l \in LeadIds |->
                IF a = "entry_app"
                THEN [NoEntryTask EXCEPT !.pc = "submit",
                                         !.entry_attempts = attempts,
                                         !.authenticated = TRUE]
                ELSE NoEntryTask]]
        /\ active_entries = [a \in EntryAgents |->
                IF a = "entry_app" THEN NumLeads ELSE 0]
        /\ faults = 0
        /\ status_update = NoStatusUpdate
        /\ manager = Initialized
        /\ csv_import = NoImport

SubmissionNext ==
    \/ \E l \in LeadIds : EntrySubmit("entry_app", l)
    \/ \E l \in LeadIds : EntryClose("entry_app", l)
    \/ EntryGather("entry_app")

SpecSubmission == InitSubmission /\ [][SubmissionNext]_vars

\* Both agent modules started from the command line with --run-once.  The
\* event loop runs every task that is ready, and every request to the store,
\* the provider and the browser returns: a step that can be taken is taken.
RunOnceNext ==
    \/ VoiceSelect("voice_cli")
    \/ VoiceSelectRaises("voice_cli")
    \/ VoiceGather("voice_cli")
    \/ \E l \in LeadIds : VoiceWorker("voice_cli", l)
    \/ EntrySelect("entry_cli")
    \/ EntrySelectRaises("entry_cli")
    \/ EntryGather("entry_cli")
    \/ \E l \in LeadIds : EntryWorker("entry_cli", l)
    \/ \E l \in LeadIds : CooldownElapses(l)

SpecRunOnce == Init /\ [][RunOnceNext]_vars /\ WF_vars(RunOnceNext)


\* The application together with an operator who uses the status-override
\* endpoint of the API, over leads that have one attempt of each stage left
\* and a store that does not raise.
InitOverride ==
    Start([l \in LeadIds |-> Lead(CallAttemptLimit - 1)], VoiceBatchSize,
          EntryBatchSize, MaxStoreFaults)

OverrideNext ==
    \/ VoiceSelect("voice_app")
    \/ VoiceGather("voice_app")
    \/ \E l \in LeadIds : VoiceWorker("voice_app", l)
    \/ EntrySelect("entry_app")
    \/ EntryGather("entry_app")
    \/ \E l \in LeadIds : EntryWorker("entry_app", l)
    \/ \E l \in LeadIds : CooldownElapses(l)
    \/ \E l \in LeadIds, status \in LeadStatus : ApiOverride(l, status)

SpecOverride == InitOverride /\ [][OverrideNext]_vars

\* Both stages at work: the call stage over fresh leads, and the submission
\* unit run for one more lead that an entry worker has claimed and for which
\* login has returned True.
SubmittingLeadId == NumLeads + 1

InitInvocations ==
    /\ leads = [l \in SiblingLeadIds |->
                    IF l = SubmittingLeadId THEN SubmittingLead(0)
                    ELSE Lead(0)]
    /\ status_order = created_order(leads)
    /\ call_logs = [l \in SiblingLeadIds |-> <<>>]
    /\ entry_logs = [l \in SiblingLeadIds |-> <<>>]
    /\ voice = [a \in VoiceAgents |-> NoSelection(VoiceBatchSize)]
    /\ call_task = [a \in VoiceAgents |->
                        [l \in SiblingLeadIds |-> NoCallTask]]
    /\ active_calls = [a \in VoiceAgents |-> {}]
    /\ entry = [a \in EntryAgents |->
            IF a = "entry_app"
            THEN [NoSelection(EntryBatchSize) EXCEPT
                    !.pc = "gather", !.batch = <<SubmittingLeadId>>]
            ELSE NoSelection(EntryBatchSize)]
    /\ entry_task = [a \in EntryAgents |-> [l \in SiblingLeadIds |->
            IF a = "entry_app" /\ l = SubmittingLeadId
            THEN [NoEntryTask EXCEPT !.pc = "submit", !.entry_attempts = 0,
                                     !.authenticated = TRUE]
            ELSE NoEntryTask]]
    /\ active_entries = [a \in EntryAgents |->
            IF a = "entry_app" THEN 1 ELSE 0]
    /\ faults = 0
    /\ status_update = NoStatusUpdate
    /\ manager = Initialized
    /\ csv_import = NoImport

InvocationsNext ==
    \/ VoiceSelect("voice_app")
    \/ VoiceGather("voice_app")
    \/ \E l \in SiblingLeadIds : VoiceWorker("voice_app", l)
    \/ EntrySelect("entry_app")
    \/ EntryGather("entry_app")
    \/ \E l \in SiblingLeadIds : EntryWorker("entry_app", l)
    \/ \E l \in SiblingLeadIds : EntrySubmit("entry_app", l)

SpecInvocations == InitInvocations /\ [][InvocationsNext]_vars

\* The two selections on their own: each scheduler of the application runs
\* its fetch once, with a batch size from 1 up to the size of the table,
\* over a table whose rows are fresh, cooling down, at an attempt limit or
\* confirmed, updated in any order.
SelectionRows ==
    {Lead(k) : k \in InitAttempts} \cup
    {ConfirmedLead, [ConfirmedLead EXCEPT !.entry_attempts = EntryAttemptLimit]}

SelectionLimits == 1..(NumLeads + 1)

Orders(S) == {s \in [1..Cardinality(S) -> S] : Range(s) = S}

InitSelection ==
    \E voice_batch, entry_batch \in SelectionLimits :
        /\ leads \in [SiblingLeadIds -> SelectionRows]
        /\ status_order \in Orders(SiblingLeadIds)
        /\ call_logs = [l \in SiblingLeadIds |-> <<>>]
        /\ entry_logs = [l \in SiblingLeadIds |-> <<>>]
        /\ voice = [a \in VoiceAgents |-> NoSelection(voice_batch)]
        /\ call_task = [a \in VoiceAgents |->
                            [l \in SiblingLeadIds |-> NoCallTask]]
        /\ active_calls = [a \in VoiceAgents |-> {}]
        /\ entry = [a \in EntryAgents |-> NoSelection(entry_batch)]
        /\ entry_task = [a \in EntryAgents |->
                            [l \in SiblingLeadIds |-> NoEntryTask]]
        /\ active_entries = [a \in EntryAgents |-> 0]
        /\ faults = 0
        /\ status_update = NoStatusUpdate
        /\ manager = Initialized
        /\ csv_import = NoImport

SelectionNext ==
    \/ VoiceSelect("voice_app")
    \/ EntrySelect("entry_app")

SpecSelection == InitSelection /\ [][SelectionNext]_vars

\* The import on its own, over a store that is empty at first.
InitImport ==
    Start(<<>>, VoiceBatchSize, EntryBatchSize, 0)

ImportNext ==
    \/ \E file \in CsvFiles : ImportCsv(file)
    \/ \E leads_data \in RowLists : BulkCreate(leads_data)

SpecImport == InitImport /\ [][ImportNext]_vars

\* update_lead_status on its own over a table of two leads, called from the
\* status endpoint and directly, with the ids of the table and an id no row
\* has.
MissingLeadId == NumLeads + 2

StatusUpdateIds == SiblingLeadIds \cup {MissingLeadId}

InitStatusUpdate ==
    Start([l \in SiblingLeadIds |-> Lead(0)], VoiceBatchSize,
          EntryBatchSize, 0)

UpdatedStatuses == {"CALLING", "ENTRY_FAILED"}

StatusUpdateNext ==
    \/ \E l \in StatusUpdateIds, status \in UpdatedStatuses :
            ApiOverride(l, status)
    \/ \E l \in StatusUpdateIds, status \in UpdatedStatuses,
           additional_fields \in AdditionalFields :
            RepositoryUpdate(l, status, additional_fields)

SpecStatusUpdate == InitStatusUpdate /\ [][StatusUpdateNext]_vars

\* ------------------------------------------------------------ properties
Transitions ==
    {<<"PENDING", "CALLING">>,
     <<"CALLING", "CONFIRMED">>, <<"CALLING", "NOT_INTERESTED">>,
     <<"CALLING", "CALL_FAILED">>,
     <<"CONFIRMED", "ENTRY_IN_PROGRESS">>,
     <<"ENTRY_IN_PROGRESS", "ENTERED">>, <<"ENTRY_IN_PROGRESS", "ENTRY_FAILED">>}

CountRows(rows, status) ==
    Cardinality({i \in 1..Len(rows) : rows[i].status = status})

\* C1: every lead's status is one of the eight values and every status
\* change a worker writes is one of the defined transitions, so no lead gets
\* to a later state without passing the in-progress state.  Stated for
\* runs in which no store operation raises.
C1_DefinedTransitionsOnly ==
    [][faults' = 0 =>
        \A l \in LeadIds :
            /\ leads'[l].status \in LeadStatus
            /\ leads'[l].status # leads[l].status =>
                    <<leads[l].status, leads'[l].status>> \in Transitions]_vars

\* A call worker that has made its claim write and has not returned.
OwnsCall(a, l) == call_task[a][l].pc \in {"init_failed", "monitor", "recording"}

\* C2: at every instant at most one worker invocation owns a given lead,
\* also when two schedulers of the stage both fetched it.
C2_SingleOwner ==
    \A l \in LeadIds : Cardinality({a \in VoiceAgents : OwnsCall(a, l)}) <= 1

\* C3: the claim succeeds iff the lead's status is the expected pre-state; a
\* claim on a lead in another status leaves status, attempt counter and
\* call_initiated_at unchanged and the worker returns without an external
\* call or a further write.  Stated for claim steps in which the store does
\* not raise.
C3_ConditionalClaim ==
    [][\A a \in VoiceAgents, l \in LeadIds :
        (/\ call_task[a][l].pc = "start"
         /\ call_task'[a][l].pc # "start"
         /\ faults' = faults)
        => IF leads[l].status = "PENDING"
           THEN leads'[l].status = "CALLING"
           ELSE /\ leads'[l] = leads[l]
                /\ call_task'[a][l].pc = "done"
                /\ ~call_task'[a][l].initiated]_vars

\* C4: a call worker that has returned has made exactly one final status
\* update and written exactly one call log row, whatever its exit path.
C4_OneUpdateOneCallLog ==
    \A a \in VoiceAgents, l \in LeadIds :
        call_task[a][l].pc = "done" =>
            /\ call_task[a][l].updates = 1
            /\ call_task[a][l].logs = 1

\* C5: an entry worker that has returned has made exactly one final status
\* update and written exactly one entry log row, whatever its exit path.
\* Stated for runs in which the store never raises.
C5_OneUpdateOneEntryLog ==
    \A a \in EntryAgents, l \in LeadIds :
        (entry_task[a][l].pc = "done" /\ faults = 0) =>
            /\ entry_task[a][l].updates = 1
            /\ entry_task[a][l].logs = 1

\* C6: an attempt counter never decreases, and the claim of every worker
\* invocation raises it by exactly one, also for two invocations started
\* from snapshots read before either claim.  Stated for claim writes that
\* the store commits.
C6_CounterStepsByOne ==
    [][\A l \in LeadIds :
        /\ leads'[l].call_attempts >= leads[l].call_attempts
        /\ leads'[l].entry_attempts >= leads[l].entry_attempts
        /\ \A a \in VoiceAgents :
            (/\ call_task[a][l].pc = "start"
             /\ call_task'[a][l].pc # "start"
             /\ faults' = faults)
            => leads'[l].call_attempts = leads[l].call_attempts + 1
        /\ \A a \in EntryAgents :
            (/\ entry_task[a][l].pc = "start"
             /\ entry_task'[a][l].pc # "start"
             /\ faults' = faults)
            => leads'[l].entry_attempts = leads[l].entry_attempts + 1]_vars

\* C7: selection never hands out a lead whose attempt counter of the stage
\* has reached the configured maximum, and no counter ever exceeds it.
C7_SelectionRespectsLimit ==
    \A l \in LeadIds :
        /\ leads[l].call_attempts <= CALL_RETRY_ATTEMPTS
        /\ leads[l].entry_attempts <= ENTRY_RETRY_ATTEMPTS
        /\ \A a \in VoiceAgents :
            /\ l \in voice[a].at_limit_seen => l \notin Range(voice[a].batch)
            /\ call_task[a][l].pc # "none" =>
                    call_task[a][l].call_attempts < CALL_RETRY_ATTEMPTS
        /\ \A a \in EntryAgents :
            /\ l \in entry[a].at_limit_seen => l \notin Range(entry[a].batch)
            /\ entry_task[a][l].pc # "none" =>
                    entry_task[a][l].entry_attempts < ENTRY_RETRY_ATTEMPTS

\* A call selection has run over a PENDING lead whose counter is at the
\* maximum.
C7_Witness ==
    \E a \in VoiceAgents, l \in LeadIds :
        /\ l \in voice[a].at_limit_seen
        /\ leads[l].call_attempts = CALL_RETRY_ATTEMPTS
        /\ l \notin Range(voice[a].batch)

\* C8: a call that was initiated and for which no terminal provider state
\* was seen before the deadline ends in CALL_FAILED with the timeout error
\* and a call log row carrying it; a result that comes in after the deadline
\* does not change that.  Stated for runs in which the store never raises.
C8_DeadlineIsAuthoritative ==
    \A a \in VoiceAgents, l \in LeadIds :
        LET t == call_task[a][l] IN
        (/\ t.pc = "done"
         /\ t.initiated
         /\ t.observed = NULL \/ t.late
         /\ faults = 0)
        => /\ leads[l].status = "CALL_FAILED"
           /\ leads[l].last_error = TimeoutError
           /\ \E i \in 1..Len(call_logs[l]) : call_logs[l][i].error = TimeoutError

\* C9: a lead that is in CALLING is not returned by call selection and a
\* lead in ENTRY_IN_PROGRESS is not returned by entry selection; a launched
\* call task is for a lead that was PENDING and outside the cool-down.
C9_InProgressNotReselected ==
    /\ \A a \in VoiceAgents :
            Range(voice[a].batch) \cap voice[a].in_progress_seen = {}
    /\ \A a \in EntryAgents :
            Range(entry[a].batch) \cap entry[a].in_progress_seen = {}

\* An entry selection has run while a claimed lead was in ENTRY_IN_PROGRESS.
C9_Witness ==
    \E a \in EntryAgents, l \in LeadIds :
        /\ l \in entry[a].in_progress_seen
        /\ leads[l].status = "ENTRY_IN_PROGRESS"
        /\ leads[l].entry_attempts > 0
        /\ l \notin Range(entry[a].batch)

\* The status the classification of a terminal provider state stands for.
Classified(observed, responses) ==
    IF observed # "completed" THEN "CALL_FAILED"
    ELSE IF Interested(responses) THEN "CONFIRMED" ELSE "NOT_INTERESTED"

\* C10: a call that reached a terminal provider state ends in NOT_INTERESTED
\* (completed, an explicit "no" on the interest topic), CONFIRMED (completed,
\* no such "no") or CALL_FAILED (any other terminal state); a completed call
\* taken up at call_attempts = k ends with k+1 and one call log row with
\* status "completed".  Stated for runs in which the store never raises.
C10_TerminalStateDecidesStatus ==
    \A a \in VoiceAgents, l \in LeadIds :
        LET t == call_task[a][l] IN
        (t.pc = "done" /\ t.observed # NULL /\ faults = 0)
        => /\ leads[l].status = Classified(t.observed, t.responses)
           /\ t.observed = "completed" =>
                /\ leads[l].call_attempts = t.call_attempts + 1
                /\ CountRows(call_logs[l], "completed") = 1

\* C11: for a lead claimed from CONFIRMED with entry_attempts = k below the
\* maximum, a submission whose result URL contains "thank-you" is a success
\* whatever the page content and the markers are: the lead is ENTERED with
\* entry_attempts = k+1.  Stated for runs in which the store never raises.
C11_ThankYouUrlDecides ==
    \A a \in EntryAgents, l \in LeadIds :
        LET t == entry_task[a][l] IN
        (t.pc = "closing" /\ t.url = "/leads/thank-you" /\ faults = 0)
        => /\ leads[l].status = "ENTERED"
           /\ leads[l].entry_attempts = t.entry_attempts + 1

\* C12: when make_call fails for a lead claimed from PENDING with
\* call_attempts = k, the lead ends in CALL_FAILED with last_error populated
\* and call_attempts = k+1, a call log row carrying the error is written and
\* no status poll is made.  Stated for runs in which the store never raises.
C12_InitiateFailureIsRecorded ==
    \A a \in VoiceAgents, l \in LeadIds :
        LET t == call_task[a][l] IN
        (t.pc = "done" /\ ~t.initiated /\ faults = 0)
        => /\ leads[l].status = "CALL_FAILED"
           /\ leads[l].last_error \notin {NULL, ""}
           /\ leads[l].call_attempts = t.call_attempts + 1
           /\ \E i \in 1..Len(call_logs[l]) :
                    call_logs[l][i].error \notin {NULL, ""}
           /\ ~t.polled

\* A worker that has returned after its final writes; the writes are counted
\* when the store did not raise.
CallWorkerFinished(t) ==
    /\ t.pc = "done"
    /\ faults = 0 => (t.updates >= 1 /\ t.logs >= 1)

EntryWorkerFinished(t) ==
    /\ t.pc = "done"
    /\ faults = 0 => (t.updates >= 1 /\ t.logs >= 1)

\* C13: a worker's failure does not reach the scheduler or its siblings: a
\* step of one worker leaves the other tasks of the cycle as they are, the
\* scheduler leaves the gather only when every worker it launched has
\* returned after its own final status write and log row, and it then goes
\* on to its next cycle.
C13_WorkerFailureIsContained ==
    [][/\ \A a \in VoiceAgents :
            /\ (voice[a].pc = "gather" /\ voice'[a].pc = "gather")
                => Cardinality({l \in DOMAIN leads :
                        call_task'[a][l] # call_task[a][l]}) <= 1
            /\ (voice[a].pc = "gather" /\ voice'[a].pc # "gather")
                => /\ voice'[a].pc = "select"
                   /\ \A l \in DOMAIN leads :
                        call_task[a][l].pc # "none"
                            => CallWorkerFinished(call_task[a][l])
       /\ \A a \in EntryAgents :
            /\ (entry[a].pc = "gather" /\ entry'[a].pc = "gather")
                => Cardinality({l \in DOMAIN leads :
                        entry_task'[a][l] # entry_task[a][l]}) <= 1
            /\ (entry[a].pc = "gather" /\ entry'[a].pc # "gather")
                => /\ entry'[a].pc = "select"
                   /\ \A l \in DOMAIN leads :
                        entry_task[a][l].pc # "none"
                            => EntryWorkerFinished(entry_task[a][l])]_vars

\* Two call workers of one cycle have returned, one through the exception
\* handler and its sibling with a confirmed lead.
C13_Witness ==
    \E a \in VoiceAgents, l1, l2 \in DOMAIN leads :
        /\ l1 # l2
        /\ voice[a].pc = "gather"
        /\ call_task[a][l1].pc = "done"
        /\ leads[l1].status = "CALL_FAILED"
        /\ leads[l1].last_error = ExceptionText
        /\ call_task[a][l2].pc = "done"
        /\ leads[l2].status = "CONFIRMED"
        /\ faults = 0

\* C14: in a call scheduler no more than MAX_CONCURRENT_CALLS workers are
\* running (claimed and not yet returned) at any instant, whatever the batch
\* size is, a batch size above the cap included.
C14_AtMostMCallWorkers ==
    \A a \in VoiceAgents :
        Cardinality({l \in DOMAIN leads : OwnsCall(a, l)})
            <= MAX_CONCURRENT_CALLS

\* An entry worker that was launched and has not returned.
EntryRunning(a, l) == entry_task[a][l].pc \notin {"none", "done"}

\* A lead of the fetched batch for which the cycle created no task.
BeyondCap(a, l) ==
    /\ entry[a].pc = "gather"
    /\ l \in Range(entry[a].batch)
    /\ entry_task[a][l].pc = "none"

\* C15: an entry cycle launches at most MAX_CONCURRENT_DATA_ENTRIES workers;
\* active_entries is the number of launched workers that have not returned
\* and lies between 0 and the cap; a lead fetched beyond the cap stays
\* CONFIRMED with its attempt counter unchanged during the cycle and
\* selection returns it again.
C15_EntryCapAndCount ==
    \A a \in EntryAgents :
        /\ Cardinality({l \in DOMAIN leads : entry_task[a][l].pc # "none"})
                <= MAX_CONCURRENT_DATA_ENTRIES
        /\ active_entries[a] =
                Cardinality({l \in DOMAIN leads : EntryRunning(a, l)})
        /\ active_entries[a] >= 0
        /\ active_entries[a] <= MAX_CONCURRENT_DATA_ENTRIES
        /\ \A l \in DOMAIN leads :
                BeyondCap(a, l)
                => /\ leads[l].status = "CONFIRMED"
                   /\ leads[l].entry_attempts = 0
                   /\ l \in Range(get_confirmed_leads_for_entry(
                                    leads, status_order, entry[a].batch_size))

\* A cycle that fetched more leads than the cap: the cap's worth of workers
\* is running and one fetched lead has no task.
C15_Witness ==
    \E a \in EntryAgents, l \in DOMAIN leads :
        /\ BeyondCap(a, l)
        /\ Len(entry[a].batch) > MAX_CONCURRENT_DATA_ENTRIES
        /\ active_entries[a] = MAX_CONCURRENT_DATA_ENTRIES
        /\ \E m \in DOMAIN leads : leads[m].status = "ENTRY_IN_PROGRESS"

\* C16: a scheduler fetches the batch of its next cycle only after every
\* worker launched in the cycle before has returned: whenever a scheduler is
\* at its selection, none of its workers is running.
C16_CycleBarrier ==
    /\ \A a \in VoiceAgents :
            voice[a].pc = "select"
                => \A l \in DOMAIN leads : call_task[a][l].pc = "none"
    /\ \A a \in EntryAgents :
            entry[a].pc = "select"
                => \A l \in DOMAIN leads : entry_task[a][l].pc = "none"

\* A call scheduler is back at its selection after a cycle that launched two
\* workers, both of which have written a final status.
C16_Witness ==
    \E a \in VoiceAgents :
        /\ voice[a].pc = "select"
        /\ Len(voice[a].batch) >= 2
        /\ \A l \in Range(voice[a].batch) :
                leads[l].status \in {"CONFIRMED", "NOT_INTERESTED", "CALL_FAILED"}

\* What a step may do to the single-shot schedulers: a task is created only
\* by the first selection and for a lead of its batch, a scheduler that has
\* left its selection does not select again, and it stops only when every
\* task it created has returned.
SingleShotStep ==
    /\ \A l \in DOMAIN leads :
            (call_task["voice_cli"][l].pc = "none"
                /\ call_task'["voice_cli"][l].pc # "none")
            => (voice["voice_cli"].pc = "select"
                /\ voice["voice_cli"].batch = <<>>
                /\ l \in Range(voice'["voice_cli"].batch))
    /\ (voice["voice_cli"].pc # "select")
            => (voice'["voice_cli"].pc # "select")
    /\ (voice["voice_cli"].pc # "stopped" /\ voice'["voice_cli"].pc = "stopped")
            => \A l \in DOMAIN leads :
                    call_task["voice_cli"][l].pc \in {"none", "done"}
    /\ \A l \in DOMAIN leads :
            (entry_task["entry_cli"][l].pc = "none"
                /\ entry_task'["entry_cli"][l].pc # "none")
            => (entry["entry_cli"].pc = "select"
                /\ entry["entry_cli"].batch = <<>>
                /\ l \in Range(entry'["entry_cli"].batch))
    /\ (entry["entry_cli"].pc # "select")
            => (entry'["entry_cli"].pc # "select")
    /\ (entry["entry_cli"].pc # "stopped" /\ entry'["entry_cli"].pc = "stopped")
            => \A l \in DOMAIN leads :
                    entry_task["entry_cli"][l].pc \in {"none", "done"}

C18_SlotReleasedOnEveryExit ==
    faults = 0 =>
    /\ \A a \in VoiceAgents :
            /\ \A l \in DOMAIN leads :
                    call_task[a][l].pc = "done"
                        => ~ \E c \in active_calls[a] : c.lead_id = l
            /\ voice[a].pc = "select" => active_calls[a] = {}
    /\ \A a \in EntryAgents :
            entry[a].pc = "select" => active_entries[a] = 0

\* The states from which no automatic transition is defined.
FinalStatuses == {"NOT_INTERESTED", "ENTERED", "ENTRY_FAILED", "CALL_FAILED"}

\* C19: once a lead is in NOT_INTERESTED, ENTERED, ENTRY_FAILED or
\* CALL_FAILED no scheduler or worker changes its status again, and no
\* selection returns it.  Stated for runs in which the store never raises.
C19_TerminalStatusIsFinal ==
    [][faults' = 0 =>
        \A l \in DOMAIN leads :
            leads[l].status \in FinalStatuses
            => /\ leads'[l].status = leads[l].status
               /\ \A a \in VoiceAgents :
                      (voice[a].pc = "select" /\ voice'[a] # voice[a])
                      => l \notin Range(voice'[a].batch)
               /\ \A a \in EntryAgents :
                      (entry[a].pc = "select" /\ entry'[a] # entry[a])
                      => l \notin Range(entry'[a].batch)]_vars

\* C20: a worker's writes are applied only while the lead is in the
\* in-progress status this worker set, and a use of the status-override
\* endpoint never leaves a lead with a call worker and an entry worker at
\* once.
C20_OnlyTheOwnerWrites ==
    [][\A l \in DOMAIN leads :
        /\ \A a \in VoiceAgents :
              call_task'[a][l].updates > call_task[a][l].updates
              => leads[l].status = "CALLING"
        /\ \A a \in EntryAgents :
              entry_task'[a][l].updates > entry_task[a][l].updates
              => leads[l].status = "ENTRY_IN_PROGRESS"
        /\ \A a \in VoiceAgents, b \in EntryAgents :
              ~(OwnsCall(a, l)' /\ EntryRunning(b, l)')]_vars

\* The failures of fetching and archiving the recording.
ArchivalFailures == {"none", "upload_failed", "remove_failed", "lookup_failed"}

\* C21: for a call that reached provider state 'completed', a failure while
\* fetching or archiving the recording (download, lead lookup, upload,
\* temp-file removal) leaves the classification unchanged: the lead ends
\* in CONFIRMED or NOT_INTERESTED as the answers say, and the status write
\* and the log row are made.  Stated for steps in which no other store
\* operation raises.
C21_ArchivalFailureKeepsClassification ==
    [][\A a \in VoiceAgents, l \in DOMAIN leads :
        (/\ call_task[a][l].pc = "recording"
         /\ call_task'[a][l].pc = "done"
         /\ call_task'[a][l].archive \in ArchivalFailures
         /\ faults' = faults + LookupFaults(call_task'[a][l].archive))
        => /\ leads'[l].status =
                IF Interested(call_task[a][l].responses)
                THEN "CONFIRMED" ELSE "NOT_INTERESTED"
           /\ call_task'[a][l].updates = call_task[a][l].updates + 1
           /\ call_task'[a][l].logs = call_task[a][l].logs + 1
           /\ call_logs'[l][Len(call_logs'[l])].status = "completed"]_vars

\* C22: submit_lead returns a screenshot path on the success and on the
\* failure outcome, and a failure to take the screenshot is not fatal: the
\* form is still submitted, and a lead that ends in ENTRY_FAILED does so by
\* the classification of the result page, not by the screenshot's
\* exception.  Stated for runs in which the store never raises.
C22_ScreenshotFailureIsNotFatal ==
    [][\A a \in EntryAgents, l \in DOMAIN leads :
        (/\ entry_task[a][l].pc = "submit"
         /\ entry_task'[a][l].pc = "closing"
         /\ faults' = 0)
        => /\ entry_task'[a][l].raised = "none"
              => entry_task'[a][l].screenshot = ScreenshotPath
           /\ entry_task'[a][l].raised = "screenshot"
              => /\ entry_task'[a][l].submitted
                 /\ leads'[l].status \in {"ENTERED", "ENTRY_FAILED"}
                 /\ leads'[l].last_error # ExceptionText]_vars

\* C23: when the login of a claimed lead fails the lead ends in ENTRY_FAILED
\* with last_error set, one entry log row is written and no form is
\* submitted; a session that is authenticated already is treated as a
\* successful login, so its worker goes on to the submission.  Stated for
\* runs in which the store never raises.
C23_LoginDecidesSubmission ==
    [][\A a \in EntryAgents, l \in DOMAIN leads :
        (/\ entry_task[a][l].pc = "session"
         /\ entry_task'[a][l].pc \in {"submit", "closing"}
         /\ faults' = 0)
        => /\ entry_task'[a][l].authenticated
              => entry_task'[a][l].pc = "submit"
           /\ entry_task'[a][l].pc = "closing"
              => /\ leads'[l].status = "ENTRY_FAILED"
                 /\ leads'[l].last_error = LoginError
                 /\ Len(entry_logs'[l]) = Len(entry_logs[l]) + 1
                 /\ ~entry_task'[a][l].submitted]_vars

\* The layers of the submission heuristic, each on its own.
UrlDecides(page) == \E w \in success_indicators : w \in UrlWords(page.url)
ContentDecides(page) == \E w \in success_indicators : w \in page.content
ErrorWordFound(page) == \E w \in error_indicators : w \in page.content

\* The worker has recorded the result of a submission that went through
\* without an exception, and the store has never raised.
SubmissionJudged(t) == t.pc = "closing" /\ t.raised = "none" /\ faults = 0

Newest(rows) == rows[Len(rows)]

\* C25: whenever a worker ends a lead in CALL_FAILED or ENTRY_FAILED,
\* last_error is a non-empty error text and the newest log row of that
\* stage for the lead carries the same text.  Stated for runs in which the
\* store never raises.
C25_FailureCarriesErrorText ==
    [][faults' = 0 =>
        \A l \in DOMAIN leads :
            /\ (/\ \E a \in VoiceAgents :
                      call_task'[a][l].updates > call_task[a][l].updates
                 /\ leads'[l].status = "CALL_FAILED")
               => /\ leads'[l].last_error \notin {NULL, ""}
                  /\ call_logs'[l] # <<>>
                  /\ Newest(call_logs'[l]).error = leads'[l].last_error
            /\ (/\ \E a \in EntryAgents :
                      entry_task'[a][l].updates > entry_task[a][l].updates
                 /\ leads'[l].status = "ENTRY_FAILED")
               => /\ leads'[l].last_error \notin {NULL, ""}
                  /\ entry_logs'[l] # <<>>
                  /\ Newest(entry_logs'[l]).error = leads'[l].last_error]_vars


\* C27: update_lead_status(id, s, fields) returns True exactly when a row has
\* the id and the store did not raise; then that row has status s and every
\* given field, and no other row is changed.  When it returns False no row
\* is changed.
C27_StatusUpdateFrame ==
    [][LET u == status_update'
       IN /\ u.returned <=> (u.lead_id \in DOMAIN leads /\ ~u.raised)
          /\ u.returned =>
                /\ leads'[u.lead_id].status = u.status
                /\ \A f \in DOMAIN u.fields :
                        leads'[u.lead_id][f] = u.fields[f]
                /\ \A m \in DOMAIN leads \ {u.lead_id} :
                        leads'[m] = leads[m]
          /\ ~u.returned => leads' = leads]_vars

C27_Witness ==
    /\ status_update.returned
    /\ status_update.fields = [last_error |-> ExceptionText]
    /\ status_update.status = "ENTRY_FAILED"
    /\ leads[status_update.lead_id].status = "ENTRY_FAILED"
    /\ leads[status_update.lead_id].last_error = ExceptionText
    /\ \E m \in DOMAIN leads : leads[m].status = "PENDING"

C27_WitnessRefused ==
    /\ ~status_update.returned
    /\ status_update.status_code = 404
    /\ status_update.lead_id = MissingLeadId

\* C28: in one worker invocation make_call is called at most once and the
\* form's submit button is clicked at most once, also after either of them
\* failed; and a worker is started for a lead only by a selection that
\* returned the lead.
C28_NoInPlaceRetry ==
    /\ [](\A l \in DOMAIN leads :
            /\ \A a \in VoiceAgents : call_task[a][l].make_calls <= 1
            /\ \A a \in EntryAgents : entry_task[a][l].clicks <= 1)
    /\ [][\A l \in DOMAIN leads :
            /\ \A a \in VoiceAgents :
                (call_task'[a][l].pc = "start"
                    /\ call_task'[a][l] # call_task[a][l]) =>
                (voice[a].pc = "select" /\ l \in Range(voice'[a].batch))
            /\ \A a \in EntryAgents :
                (entry_task'[a][l].pc = "start"
                    /\ entry_task'[a][l] # entry_task[a][l]) =>
                (entry[a].pc = "select" /\ l \in Range(entry'[a].batch))]_vars

C28_Witness ==
    \E l1, l2 \in DOMAIN leads :
        /\ call_task["voice_app"][l1].pc = "done"
        /\ call_task["voice_app"][l1].make_calls = 1
        /\ ~call_task["voice_app"][l1].initiated
        /\ leads[l1].status = "CALL_FAILED"
        /\ entry_task["entry_app"][l2].pc = "done"
        /\ entry_task["entry_app"][l2].clicks = 1
        /\ leads[l2].status = "ENTRY_FAILED"

\* The place of a lead in an order, oldest first.
Place(order, l) == CHOOSE i \in 1..Len(order) : order[i] = l

\* batch is a selection of at most limit leads out of eligible, oldest
\* first in order, that leaves out no lead older than one it holds.
OldestFirst(batch, limit, eligible, order) ==
    /\ Len(batch) <= limit
    /\ Range(batch) \subseteq eligible
    /\ \A i, j \in 1..Len(batch) :
            i < j => Place(order, batch[i]) < Place(order, batch[j])
    /\ \A l \in eligible \ Range(batch), r \in Range(batch) :
            Place(order, r) < Place(order, l)

\* C29: a selection returns at most limit leads, all eligible for the stage
\* (PENDING, not cooling down, call_attempts below the limit; CONFIRMED,
\* entry_attempts below the limit), oldest first by created_at for the call
\* stage and by status_updated_at for the entry stage, and leaves out no
\* eligible lead older than one it returns.
C29_SelectionOldestFirst ==
    [][/\ \A a \in VoiceAgents :
            (voice[a].pc = "select" /\ voice'[a] # voice[a]) =>
                OldestFirst(voice'[a].batch, voice[a].batch_size,
                    {l \in DOMAIN leads :
                        /\ leads[l].status = "PENDING"
                        /\ leads[l].call_initiated_at # "recent"
                        /\ leads[l].call_attempts < CALL_RETRY_ATTEMPTS},
                    created_order(leads))
       /\ \A a \in EntryAgents :
            (entry[a].pc = "select" /\ entry'[a] # entry[a]) =>
                OldestFirst(entry'[a].batch, entry[a].batch_size,
                    {l \in DOMAIN leads :
                        /\ leads[l].status = "CONFIRMED"
                        /\ leads[l].entry_attempts < ENTRY_RETRY_ATTEMPTS},
                    status_order)]_vars

C29_Witness ==
    /\ entry["entry_app"].pc = "gather"
    /\ entry["entry_app"].batch_size = 1
    /\ \E l1, l2 \in DOMAIN leads :
        /\ l1 < l2
        /\ leads[l1].status = "CONFIRMED" /\ leads[l2].status = "CONFIRMED"
        /\ leads[l1].entry_attempts < EntryAttemptLimit
        /\ Place(status_order, l2) < Place(status_order, l1)
        /\ entry["entry_app"].batch = <<l2>>

\* C30: the confirmed-value fields of a lead change only in the step in
\* which a call worker ends on a classified call, and only in the write that
\* sets the status to CONFIRMED; no step of an entry worker and no write of
\* CALL_FAILED or NOT_INTERESTED changes them.
C30_ConfirmedValuesWrittenOnConfirm ==
    [][\A l \in DOMAIN leads :
        leads'[l].confirmed_fields # leads[l].confirmed_fields =>
            /\ \E a \in VoiceAgents :
                    /\ call_task[a][l].pc = "recording"
                    /\ call_task'[a][l].pc = "done"
            /\ leads'[l].status = "CONFIRMED"
            /\ entry_task' = entry_task]_vars

C30_Witness ==
    \E l \in DOMAIN leads :
        /\ leads[l].confirmed_fields = "set"
        /\ leads[l].status = "ENTRY_FAILED"
        /\ entry_task["entry_app"][l].pc = "done"
        /\ entry_task["entry_app"][l].updates = 1
        /\ call_logs[l] # <<>>

\* C31: under fairness every lead in CONFIRMED, which only a call worker
\* sets, is eventually in ENTERED or ENTRY_FAILED, whatever the call
\* scheduler is doing.
C31_ConfirmedLeadIsEntered ==
    \A l \in LeadIds :
        (leads[l].status = "CONFIRMED") ~>
            (leads[l].status \in {"ENTERED", "ENTRY_FAILED"})

\* The same when the store never raises.
C31_WithoutStoreErrors ==
    [](faults = 0) => C31_ConfirmedLeadIsEntered

\* rows is what older was, with zero or more rows added at its end.
Extends(rows, older) ==
    /\ Len(older) <= Len(rows)
    /\ \A i \in 1..Len(older) : rows[i] = older[i]

\* C32: no step removes or adds a lead, and no step removes or changes a
\* row of call_logs or entry_logs: the rows of each lead after the step are
\* its rows before the step, followed by the rows the step wrote.
C32_LogsAppendOnly ==
    [][/\ DOMAIN leads' = DOMAIN leads
       /\ DOMAIN call_logs' = DOMAIN call_logs
       /\ DOMAIN entry_logs' = DOMAIN entry_logs
       /\ \A l \in DOMAIN leads :
            /\ Extends(call_logs'[l], call_logs[l])
            /\ Extends(entry_logs'[l], entry_logs[l])]_vars

C32_Witness ==
    \E l \in DOMAIN leads :
        /\ Len(call_logs[l]) = 1
        /\ Len(entry_logs[l]) = 2
        /\ entry_logs[l][1].status = "login_failed"
        /\ entry_logs[l][2].status = "error"

\* C33: once stop() has been called (running is False) neither scheduler
\* of the application selects a batch or takes any other step of its loop,
\* and no worker is launched.
C33_StopEndsSchedulers ==
    [][~manager.running =>
        /\ voice'["voice_app"] = voice["voice_app"]
        /\ entry'["entry_app"] = entry["entry_app"]
        /\ \A l \in DOMAIN leads :
            /\ call_task'["voice_app"][l].pc = "start"
                    => call_task["voice_app"][l].pc = "start"
            /\ entry_task'["entry_app"][l].pc = "start"
                    => entry_task["entry_app"][l].pc = "start"]_vars

\* stop() was called from the signal handler in the middle of a call cycle:
\* the scheduler waits in its gather for a worker that is monitoring a call.
C33_Witness ==
    /\ ~manager.running
    /\ manager.exited
    /\ voice["voice_app"].pc = "gather"
    /\ \E l \in DOMAIN leads :
        /\ call_task["voice_app"][l].pc = "monitor"
        /\ leads[l].status = "CALLING"

\* The leads a step stored: the table after it has the leads of before,
\* unchanged, and n more, all PENDING with both attempt counters at 0.
Stored(n) ==
    /\ Cardinality(DOMAIN leads') = Cardinality(DOMAIN leads) + n
    /\ \A l \in DOMAIN leads : l \in DOMAIN leads' /\ leads'[l] = leads[l]
    /\ \A l \in DOMAIN leads' \ DOMAIN leads :
            /\ leads'[l].status = "PENDING"
            /\ leads'[l].call_attempts = 0
            /\ leads'[l].entry_attempts = 0

C34_WitnessRolledBack ==
    /\ csv_import.call = "bulk_create_leads"
    /\ csv_import.raised
    /\ Len(csv_import.handed) = MaxRows
    /\ csv_import.bulk = <<0, MaxRows>>
    /\ leads = <<>>

\* C35: a lead in CALLING has a call worker of the application running for
\* it, and a lead in ENTRY_IN_PROGRESS an entry worker: no lead is left in
\* an in-progress status by a worker that has returned.
C35_InProgressHasWorker ==
    \A l \in LeadIds :
        /\ leads[l].status = "CALLING" =>
                call_task["voice_app"][l].pc \notin {"none", "done"}
        /\ leads[l].status = "ENTRY_IN_PROGRESS" =>
                entry_task["entry_app"][l].pc \notin {"none", "done"}

\* C36: with the application left running, every lead that is eligible for
\* calling is eventually claimed: the call scheduler creates a worker for
\* it.
C36_EligibleLeadIsClaimed ==
    \A l \in LeadIds :
        (l \in PendingEligible(leads))
            ~> (call_task["voice_app"][l].pc # "none")

\* C37: the run loops of the application's two schedulers, started
\* continuous and with credentials, never return.
C37_RunLoopNeverReturns ==
    /\ voice["voice_app"].pc # "stopped"
    /\ entry["entry_app"].pc # "stopped"

\* The voice schedulers whose worker for the lead has made its claim.
CallClaimers(l) ==
    {a \in VoiceAgents : call_task[a][l].pc \notin {"none", "start"}}

\* C38: over leads that no override has touched, a lead is claimed at most
\* once in the call stage, and call_attempts and entry_attempts never exceed
\* 1, which is below the limit that selection tests.
C38_ClaimedOncePerStage ==
    \A l \in LeadIds :
        /\ Cardinality(CallClaimers(l)) <= 1
        /\ leads[l].call_attempts <= 1
        /\ leads[l].entry_attempts <= 1

\* The part of C38 about the counters alone.
C38_AttemptsAtMostOne ==
    \A l \in LeadIds :
        /\ leads[l].call_attempts <= 1
        /\ leads[l].entry_attempts <= 1

\* The writes of the timeout path of _monitor_call for a lead, each of them
\* made or, when the store raised, not made.
TimeoutWrites(l) ==
    /\ \/ leads' = leads
       \/ /\ leads'[l].status = "CALL_FAILED"
          /\ leads'[l].last_error = TimeoutError
    /\ \/ call_logs' = call_logs
       \/ call_logs'[l] = Append(call_logs[l],
                [status |-> "timeout", error |-> TimeoutError])

EntryStage == {"ENTRY_IN_PROGRESS", "ENTERED", "ENTRY_FAILED"}

CallEnded == {"CONFIRMED", "NOT_INTERESTED", "CALL_FAILED"} \cup EntryStage

\* C40: the timestamps of a lead agree with its status: call_initiated_at is
\* set from CALLING on, call_completed_at once the call stage has ended,
\* entry_initiated_at from ENTRY_IN_PROGRESS on, and entry_completed_at in
\* ENTERED and ENTRY_FAILED.
C40_TimestampsAgreeWithStatus ==
    \A l \in LeadIds :
        /\ leads[l].status \in {"CALLING"} \cup CallEnded
                => leads[l].call_initiated_at # NULL
        /\ leads[l].status \in CallEnded
                => leads[l].call_completed_at # NULL
        /\ leads[l].status \in EntryStage
                => leads[l].entry_initiated_at # NULL
        /\ leads[l].status \in {"ENTERED", "ENTRY_FAILED"}
                => leads[l].entry_completed_at # NULL

====
